---- MODULE Spec2Model ----
(***************************************************************************)
(* LLRP client session (src/src/client.rs) over the codec of               *)
(* src/src/llrp.rs: one caller issuing verbs through `&mut self`, the      *)
(* spawned receive loop, the two tokio broadcast channels, the writer and  *)
(* reader mutexes, and an LLRP reader at the other end of the socket.      *)
(***************************************************************************)
EXTENDS Integers, Sequences, FiniteSets, TLC

(* ------------------------------------------------------------------------ *)
(* Bounds of the model                                                      *)
(* ------------------------------------------------------------------------ *)

\* verbs one caller invokes on a session (free mode)
MaxVerbs == 2

\* frames the reader emits that answer no request
MaxUnsolicited == 2

\* config.response_timeout, in clock ticks
ResponseTimeout == 2

\* retained messages of a broadcast channel (the code asks for 100)
ChannelCapacity == 1

\* longest payload handed to the codec functions
MaxPayloadLen == 2
\* the longest run of bytes after the type byte of an EPC-96 TV parameter
MaxEpcLen == 13
\* the longest of the short antenna lists of an ROSpecConfig
MaxAntennas == 2
\* the length of the one long antenna list: the shortest with which the
\* octets of the ROSpec do not fit 16 bits
ManyAntennas == 32737

(* ------------------------------------------------------------------------ *)
(* Type registries (llrp.rs)                                                *)
(* ------------------------------------------------------------------------ *)

LlrpMessageType ==
  [ None                          |-> 0,
    GetReaderCapabilities         |-> 1,
    GetReaderCapabilitiesResponse |-> 11,
    GetReaderConfig               |-> 2,
    GetReaderConfigResponse       |-> 12,
    SetReaderConfig               |-> 3,
    SetReaderConfigResponse       |-> 13,
    CloseConnection               |-> 14,
    CloseConnectionResponse       |-> 4,
    AddROSpec                     |-> 20,
    AddROspecResponse             |-> 30,
    DeleteROSpec                  |-> 21,
    DeleteROSpecResponse          |-> 31,
    StartROSpec                   |-> 22,
    StartROSpecResponse           |-> 32,
    StopROSpec                    |-> 23,
    StopROSpecResponse            |-> 33,
    EnableROSpec                  |-> 24,
    EnableROSpecResponse          |-> 34,
    DisableROSpec                 |-> 25,
    DisableROSpecResponse         |-> 35,
    GetROSpecs                    |-> 26,
    GetROSpecsResponse            |-> 36,
    GetReport                     |-> 60,
    ROAccessReport                |-> 61,
    Keepalive                     |-> 62,
    KeepaliveAck                  |-> 72,
    ReaderEventNotification       |-> 63,
    EnableEventsAndReports        |-> 64,
    ErrorMessage                  |-> 100,
    CustomMessage                 |-> 1023 ]

\* Option::None of from_value
NoVariant == "NoVariant"

MessageType_value(variant) == LlrpMessageType[variant]

MessageType_from_value(value) ==
  IF \E variant \in DOMAIN LlrpMessageType : LlrpMessageType[variant] = value
  THEN CHOOSE variant \in DOMAIN LlrpMessageType : LlrpMessageType[variant] = value
  ELSE NoVariant

LlrpParameterType ==
  [ UTCTimeStamp                      |-> 128,
    Uptime                            |-> 129,
    GeneralDeviceCapabilities         |-> 137,
    MaximumReceiveSensitivity         |-> 363,
    ReceiveSensitivityTableEntry      |-> 139,
    PerAntennaAirProtocol             |-> 140,
    GPIPCapabilities                  |-> 141,
    LLRPCapabilities                  |-> 142,
    RegulatoryCapabilities            |-> 143,
    UHFBandCapabilities               |-> 144,
    TransmitPowerLevelTableEntry      |-> 145,
    FrequencyInformation              |-> 146,
    FrequencyHopTable                 |-> 147,
    FixedFrequencyTable               |-> 148,
    PerAntennaReceiveSensitivityRange |-> 149,
    RFSurveyFrequencyCapabilities     |-> 365,
    ROSpec                            |-> 177,
    ROBoundarySpec                    |-> 178,
    ROSpecStartTrigger                |-> 179,
    PeriodicTriggerValue              |-> 180,
    GPITriggerValue                   |-> 181,
    ROSpecStopTrigger                 |-> 182,
    AISpec                            |-> 183,
    AISpecStopTrigger                 |-> 184,
    TagObservationTrigger             |-> 185,
    InventoryParameterSpec            |-> 186,
    RFSurveySpec                      |-> 187,
    RFSurveySpecStopTrigger           |-> 188,
    LoopSpec                          |-> 355,
    AccessSpec                        |-> 207,
    AccessSpecStopTrigger             |-> 208,
    AccessCommand                     |-> 209,
    ClientRequestOpSpec               |-> 210,
    ClientRequestResponse             |-> 211,
    LLRPConfigurationStateValue       |-> 217,
    Identification                    |-> 218,
    GPOWriteData                      |-> 219,
    KeepAliveSpec                     |-> 220,
    AntennaProperties                 |-> 221,
    AntennaConfiguration              |-> 222,
    RFReceiver                        |-> 223,
    RFTransmitter                     |-> 224,
    GPIPortCurrentState               |-> 225,
    EventsAndReports                  |-> 226,
    ROReportSpec                      |-> 237,
    TagReportContentSelector          |-> 238,
    TagReportData                     |-> 240,
    EPCData                           |-> 241,
    EPC96                             |-> 13,
    ReaderEventNotificationData       |-> 246,
    ConnAttemptEvent                  |-> 256,
    LLRPStatus                        |-> 287,
    C1G2LLRPCapabilities              |-> 327 ]

ParameterType_value(variant) == LlrpParameterType[variant]

\* a lookup that looks at the low 8 bits of the type only
ParameterType_from_value_8bit(value) ==
  IF \E variant \in DOMAIN LlrpParameterType : LlrpParameterType[variant] = value % 256
  THEN CHOOSE variant \in DOMAIN LlrpParameterType : LlrpParameterType[variant] = value % 256
  ELSE NoVariant

ParameterType_from_value(value) ==
  IF \E variant \in DOMAIN LlrpParameterType : LlrpParameterType[variant] = value
  THEN CHOOSE variant \in DOMAIN LlrpParameterType : LlrpParameterType[variant] = value
  ELSE NoVariant

(* ------------------------------------------------------------------------ *)
(* Parameter parsing (llrp.rs)                                              *)
(* ------------------------------------------------------------------------ *)

\* the three ways a decoder ends: a value, an io::Error, or a panic of the
\* bytes crate when a get_* reads past the end of the buffer
Ok(data)  == [status |-> "ok", data |-> data]
Err       == [status |-> "err", data |-> <<>>]
Panic     == [status |-> "panic", data |-> <<>>]

\* a table that gives EPC-96 one byte less
get_tv_param_length_short(param_type) ==
  IF param_type = "EPC96" THEN 11 ELSE -1

\* Option<usize>: the fixed value size of a TV parameter, -1 for None
get_tv_param_length(param_type) ==
  IF param_type = "EPC96" THEN 12 ELSE -1

is_known_parameter_with_subparams(param_type_value) ==
  ParameterType_from_value(param_type_value) \in
    { "GeneralDeviceCapabilities", "LLRPCapabilities", "RegulatoryCapabilities",
      "UHFBandCapabilities", "FrequencyInformation" }

\* buf.get_u16() at the front of a byte sequence
get_u16(buf) == buf[1] * 256 + buf[2]

\* buf.get_u32(), kept as its two 16-bit halves (high, low)
get_u32(buf) == << buf[1] * 256 + buf[2], buf[3] * 256 + buf[4] >>

\* the bytes left after the first n
Advance(buf, n) == SubSeq(buf, n + 1, Len(buf))

\* one pass of the while loop ends in: a parameter pushed, nothing pushed
\* (continue), or an early return of an error
Pushed(parameter, rest) == [step |-> "push", parameter |-> parameter, rest |-> rest]
Skipped(rest)           == [step |-> "skip", parameter |-> <<>>, rest |-> rest]
Failed                  == [step |-> "err",  parameter |-> <<>>, rest |-> <<>>]

\* the TV branch, `len` being the size registered for the 7-bit type: a type
\* with no size has consumed its one byte and the loop continues
parse_tv_sized(param_type, len, rest) ==
  IF len < 0 THEN Skipped(rest)
  ELSE IF Len(rest) < len THEN Failed
  ELSE Pushed([ param_type   |-> param_type,
                param_length |-> 1 + len,
                param_value  |-> SubSeq(rest, 1, len),
                sub_params   |-> [some |-> FALSE, params |-> <<>>] ],
              Advance(rest, len))

parse_tv_typed(param_type, rest) ==
  parse_tv_sized(param_type,
                 IF param_type = NoVariant THEN -1 ELSE get_tv_param_length(param_type),
                 rest)

parse_tv(buf) == parse_tv_typed(ParameterType_from_value(buf[1] % 128), Advance(buf, 1))

\* the TLV branch after split_to: `sub` is the parse of the value of a known
\* container, done in place, which leaves the value the parameter keeps
\* (param_value.to_vec()) empty; a type outside the registry pushes nothing
parse_tlv_value(param_type_value, param_length, value, after, container, sub) ==
  IF sub.status # "ok" THEN Failed
  ELSE IF ParameterType_from_value(param_type_value) = NoVariant THEN Skipped(after)
  ELSE Pushed([ param_type   |-> ParameterType_from_value(param_type_value),
                param_length |-> param_length,
                param_value  |-> IF container THEN <<>> ELSE value,
                sub_params   |-> [some |-> container, params |-> sub.data] ],
              after)

RECURSIVE parse_parameters(_)

parse_tlv_checked(param_type_value, param_length, rest) ==
  IF param_length < 4 \/ param_length - 4 > Len(rest) THEN Failed
  ELSE parse_tlv_value(param_type_value, param_length,
                       SubSeq(rest, 1, param_length - 4),
                       Advance(rest, param_length - 4),
                       is_known_parameter_with_subparams(param_type_value),
                       IF is_known_parameter_with_subparams(param_type_value)
                       THEN parse_parameters(SubSeq(rest, 1, param_length - 4))
                       ELSE Ok(<<>>))

\* a TLV branch that leaves the length field in the buffer
parse_tlv_length_unread(buf) ==
  IF Len(buf) < 4 THEN Failed
  ELSE parse_tlv_checked(get_u16(buf), get_u16(Advance(buf, 2)), Advance(buf, 2))

parse_tlv(buf) ==
  IF Len(buf) < 4 THEN Failed
  ELSE parse_tlv_checked(get_u16(buf), get_u16(Advance(buf, 2)), Advance(buf, 4))

\* the body of the while loop at the front of `buf`
parse_one(buf) == IF buf[1] >= 128 THEN parse_tv(buf) ELSE parse_tlv(buf)

RECURSIVE parse_loop(_, _)

parse_next(one, parameters) ==
  IF one.step = "err" THEN Err
  ELSE parse_loop(one.rest,
                  IF one.step = "push" THEN Append(parameters, one.parameter)
                  ELSE parameters)

\* while buf.remaining() > 0
parse_loop(buf, parameters) ==
  IF Len(buf) = 0 THEN Ok(parameters) ELSE parse_next(parse_one(buf), parameters)

parse_parameters(buf) == parse_loop(buf, <<>>)

(* ------------------------------------------------------------------------ *)
(* Typed decoders (llrp.rs)                                                 *)
(* ------------------------------------------------------------------------ *)

\* EPCData::decode: the 16-bit bit length, then ceil(bits/8) bytes, with the
\* sum bit_field_length + 7 in u16 (wrapping, as a release build does)
EPCData_sized(epc_byte_length, rest) ==
  IF Len(rest) < epc_byte_length THEN Err ELSE Ok(SubSeq(rest, 1, epc_byte_length))

EPCData_decode(buf) ==
  IF Len(buf) < 2 THEN Err
  ELSE EPCData_sized(((get_u16(buf) + 7) % 65536) \div 8, Advance(buf, 2))

\* EPCData::decode as built: bit_field_length + 7 is a u16 sum, which panics
\* with overflow checks on and wraps with them off
EPCData_decode_build(buf, overflow_checks) ==
  IF Len(buf) >= 2 /\ get_u16(buf) + 7 > 65535 /\ overflow_checks THEN Panic
  ELSE EPCData_decode(buf)

EPCData_decode_epc96(buf) ==
  IF Len(buf) # 12 THEN Err ELSE Ok(buf)

\* A for loop over parsed parameters is modelled by three operators: X_one
\* decodes the parameter at the front (Ok(<<>>) for a type the match skips),
\* X_next applies the ? and the arm's assignment, X_loop iterates.
TagReportData_one(parameter) ==
  IF parameter.param_type = "EPCData" THEN EPCData_decode(parameter.param_value)
  ELSE IF parameter.param_type = "EPC96" THEN EPCData_decode_epc96(parameter.param_value)
  ELSE Ok(<<>>)

RECURSIVE TagReportData_loop(_, _)

TagReportData_next(r, param_type, rest, epc) ==
  IF r.status # "ok" THEN r
  ELSE TagReportData_loop(rest, IF param_type \in {"EPCData", "EPC96"} THEN r.data ELSE epc)

TagReportData_loop(parameters, epc) ==
  IF parameters = <<>> THEN Ok(epc)
  ELSE TagReportData_next(TagReportData_one(Head(parameters)),
                          Head(parameters).param_type, Tail(parameters), epc)

TagReportData_parsed(parsed) ==
  IF parsed.status # "ok" THEN parsed ELSE TagReportData_loop(parsed.data, <<>>)

TagReportData_decode(buf) == TagReportData_parsed(parse_parameters(buf))

IsCont(b) == b >= 128 /\ b <= 191

\* String::from_utf8 accepts exactly the well-formed UTF-8 byte sequences
RECURSIVE from_utf8_ok(_)
from_utf8_ok(bytes) ==
  IF bytes = <<>> THEN TRUE
  ELSE IF bytes[1] < 128 THEN from_utf8_ok(Advance(bytes, 1))
  ELSE IF bytes[1] >= 194 /\ bytes[1] <= 223
  THEN Len(bytes) >= 2 /\ IsCont(bytes[2]) /\ from_utf8_ok(Advance(bytes, 2))
  ELSE IF bytes[1] >= 224 /\ bytes[1] <= 239
  THEN /\ Len(bytes) >= 3
       /\ IsCont(bytes[2]) /\ IsCont(bytes[3])
       /\ (bytes[1] = 224 => bytes[2] >= 160)
       /\ (bytes[1] = 237 => bytes[2] <= 159)
       /\ from_utf8_ok(Advance(bytes, 3))
  ELSE IF bytes[1] >= 240 /\ bytes[1] <= 244
  THEN /\ Len(bytes) >= 4
       /\ IsCont(bytes[2]) /\ IsCont(bytes[3]) /\ IsCont(bytes[4])
       /\ (bytes[1] = 240 => bytes[2] >= 144)
       /\ (bytes[1] = 244 => bytes[2] <= 143)
       /\ from_utf8_ok(Advance(bytes, 4))
  ELSE FALSE

GPIOCapabilities_decode(buf) ==
  IF Len(buf) < 4 THEN Err
  ELSE Ok([ num_gpi_ports |-> get_u16(buf),
            num_gpo_ports |-> get_u16(Advance(buf, 2)) ])

\* the for loop over num_protocols protocol ids
AntennaAirProtocol_decode(buf) ==
  IF Len(buf) < 3 THEN Err
  ELSE IF Len(buf) - 3 < buf[3] THEN Err
  ELSE Ok([ antenna_id   |-> get_u16(buf),
            protocol_ids |-> SubSeq(buf, 4, 3 + buf[3]) ])

\* buf.get_i16()
get_i16(buf) == IF get_u16(buf) >= 32768 THEN get_u16(buf) - 65536 ELSE get_u16(buf)

ReceiveSensitivityTableEntry_decode(buf) ==
  IF Len(buf) < 4 THEN Err
  ELSE Ok([ index |-> get_u16(buf),
            receive_sensitivity_value |-> get_i16(Advance(buf, 2)) ])

TransmitPowerLevelTableEntry_decode(buf) ==
  IF Len(buf) < 4 THEN Err
  ELSE Ok([ index |-> get_u16(buf),
            transmit_power_value |-> get_u16(Advance(buf, 2)) ])

\* num_frequencies u32 values, big-endian
RECURSIVE read_frequencies(_, _)
read_frequencies(buf, n) ==
  IF n = 0 THEN <<>>
  ELSE <<get_u32(buf)>> \o read_frequencies(Advance(buf, 4), n - 1)

FrequencyHopTable_decode(buf) ==
  IF Len(buf) < 4 THEN Err
  ELSE IF Len(buf) - 4 < get_u16(Advance(buf, 2)) * 4 THEN Err
  ELSE Ok([ hop_table_id |-> get_u16(buf),
            frequencies  |-> read_frequencies(Advance(buf, 4), get_u16(Advance(buf, 2))) ])

FixedFrequencyTable_decode(buf) ==
  IF Len(buf) < 2 THEN Err
  ELSE IF Len(buf) - 2 < get_u16(buf) * 4 THEN Err
  ELSE Ok([ frequencies |-> read_frequencies(Advance(buf, 2), get_u16(buf)) ])

FrequencyInformation_one(param) ==
  IF param.param_type = "FrequencyHopTable" THEN FrequencyHopTable_decode(param.param_value)
  ELSE IF param.param_type = "FixedFrequencyTable"
  THEN FixedFrequencyTable_decode(param.param_value)
  ELSE Ok(<<>>)

RECURSIVE FrequencyInformation_loop(_, _)

FrequencyInformation_next(r, param_type, rest, acc) ==
  IF r.status # "ok" THEN r
  ELSE FrequencyInformation_loop(rest,
         IF param_type = "FrequencyHopTable"
         THEN [acc EXCEPT !.frequency_hop_tables = Append(@, r.data)]
         ELSE IF param_type = "FixedFrequencyTable"
         THEN [acc EXCEPT !.fixed_frequency_table = <<r.data>>]
         ELSE acc)

FrequencyInformation_loop(parameters, acc) ==
  IF parameters = <<>> THEN Ok(acc)
  ELSE FrequencyInformation_next(FrequencyInformation_one(Head(parameters)),
                                 Head(parameters).param_type, Tail(parameters), acc)

FrequencyInformation_parsed(parsed, hop_flag) ==
  IF parsed.status # "ok" THEN parsed
  ELSE FrequencyInformation_loop(parsed.data,
         [ hopping               |-> hop_flag # 0,
           frequency_hop_tables  |-> <<>>,
           fixed_frequency_table |-> <<>> ])

FrequencyInformation_decode(buf) ==
  IF Len(buf) < 1 THEN Err
  ELSE FrequencyInformation_parsed(parse_parameters(Advance(buf, 1)), buf[1])

UHFBandCapabilities_one(param) ==
  IF param.param_type = "TransmitPowerLevelTableEntry"
  THEN TransmitPowerLevelTableEntry_decode(param.param_value)
  ELSE IF param.param_type = "FrequencyInformation"
  THEN FrequencyInformation_decode(param.param_value)
  ELSE Ok(<<>>)

RECURSIVE UHFBandCapabilities_loop(_, _)

UHFBandCapabilities_next(r, param_type, rest, acc) ==
  IF r.status # "ok" THEN r
  ELSE UHFBandCapabilities_loop(rest,
         IF param_type = "TransmitPowerLevelTableEntry"
         THEN [acc EXCEPT !.transmit_power_levels = Append(@, r.data)]
         ELSE IF param_type = "FrequencyInformation"
         THEN [acc EXCEPT !.frequency_information = <<r.data>>]
         ELSE acc)

UHFBandCapabilities_loop(parameters, acc) ==
  IF parameters = <<>> THEN Ok(acc)
  ELSE UHFBandCapabilities_next(UHFBandCapabilities_one(Head(parameters)),
                                Head(parameters).param_type, Tail(parameters), acc)

UHFBandCapabilities_parsed(parsed) ==
  IF parsed.status # "ok" THEN parsed
  ELSE UHFBandCapabilities_loop(parsed.data,
         [ transmit_power_levels |-> <<>>, frequency_information |-> <<>> ])

UHFBandCapabilities_decode(buf) == UHFBandCapabilities_parsed(parse_parameters(buf))

RegulatoryCapabilities_one(param) ==
  IF param.param_type = "UHFBandCapabilities"
  THEN UHFBandCapabilities_decode(param.param_value)
  ELSE Ok(<<>>)

RECURSIVE RegulatoryCapabilities_loop(_, _)

RegulatoryCapabilities_next(r, param_type, rest, acc) ==
  IF r.status # "ok" THEN r
  ELSE RegulatoryCapabilities_loop(rest,
         IF param_type = "UHFBandCapabilities"
         THEN [acc EXCEPT !.uhf_band_capabilities = <<r.data>>]
         ELSE acc)

RegulatoryCapabilities_loop(parameters, acc) ==
  IF parameters = <<>> THEN Ok(acc)
  ELSE RegulatoryCapabilities_next(RegulatoryCapabilities_one(Head(parameters)),
                                   Head(parameters).param_type, Tail(parameters), acc)

RegulatoryCapabilities_parsed(parsed, buf) ==
  IF parsed.status # "ok" THEN parsed
  ELSE RegulatoryCapabilities_loop(parsed.data,
         [ country_code            |-> get_u16(buf),
           communications_standard |-> buf[3],
           uhf_band_capabilities   |-> <<>> ])

RegulatoryCapabilities_decode(buf) ==
  IF Len(buf) < 3 THEN Err
  ELSE RegulatoryCapabilities_parsed(parse_parameters(Advance(buf, 3)), buf)

\* checks 24 bytes, then reads 1 + 1 + 6 * 4
LLRPCapabilities_decode(buf) ==
  IF Len(buf) < 24 THEN Err
  ELSE IF Len(buf) < 26 THEN Panic
  ELSE Ok([ can_do_rfsurvey                   |-> buf[1] >= 128,
            can_report_buffer_fill_warning    |-> (buf[1] \div 64) % 2 = 1,
            supports_client_request_op_spec   |-> (buf[1] \div 32) % 2 = 1,
            can_do_tag_inventory_state_aware_singulation
                                              |-> (buf[1] \div 16) % 2 = 1,
            supports_event_and_report_holding |-> (buf[1] \div 8) % 2 = 1,
            max_num_priority_levels_supported |-> buf[2],
            client_request_op_spec_timeout    |-> get_u32(Advance(buf, 2)),
            max_num_ro_specs                  |-> get_u32(Advance(buf, 6)),
            max_num_specs_per_ro_spec         |-> get_u32(Advance(buf, 10)),
            max_num_inventory_parameter_specs_per_ai_spec
                                              |-> get_u32(Advance(buf, 14)),
            max_num_access_specs              |-> get_u32(Advance(buf, 18)),
            max_num_op_specs_per_access_spec  |-> get_u32(Advance(buf, 22)) ])

\* the firmware bytes: up to, and consuming, the first zero byte
RECURSIVE firmware_len(_)
firmware_len(buf) ==
  IF buf = <<>> \/ buf[1] = 0 THEN 0 ELSE 1 + firmware_len(Advance(buf, 1))

GeneralDeviceCapabilities_one(param) ==
  IF param.param_type = "ReceiveSensitivityTableEntry"
  THEN ReceiveSensitivityTableEntry_decode(param.param_value)
  ELSE IF param.param_type = "GPIPCapabilities"
  THEN GPIOCapabilities_decode(param.param_value)
  ELSE IF param.param_type = "PerAntennaAirProtocol"
  THEN AntennaAirProtocol_decode(param.param_value)
  ELSE Ok(<<>>)

RECURSIVE GeneralDeviceCapabilities_loop(_, _)

GeneralDeviceCapabilities_next(r, param_type, rest, acc) ==
  IF r.status # "ok" THEN r
  ELSE GeneralDeviceCapabilities_loop(rest,
         IF param_type = "ReceiveSensitivityTableEntry"
         THEN [acc EXCEPT !.receive_sensitivity_table_entries = Append(@, r.data)]
         ELSE IF param_type = "GPIPCapabilities"
         THEN [acc EXCEPT !.gpio_capabilities = <<r.data>>]
         ELSE IF param_type = "PerAntennaAirProtocol"
         THEN [acc EXCEPT !.antenna_air_protocols = Append(@, r.data)]
         ELSE acc)

GeneralDeviceCapabilities_loop(parameters, acc) ==
  IF parameters = <<>> THEN Ok(acc)
  ELSE GeneralDeviceCapabilities_next(GeneralDeviceCapabilities_one(Head(parameters)),
                                      Head(parameters).param_type, Tail(parameters), acc)

GeneralDeviceCapabilities_parsed(parsed, buf, firmware) ==
  IF parsed.status # "ok" THEN parsed
  ELSE GeneralDeviceCapabilities_loop(parsed.data,
         [ max_number_of_antennas_supported  |-> get_u16(buf),
           can_set_antenna_properties        |-> get_u16(Advance(buf, 2)) >= 32768,
           has_utc_clock_capabilities        |-> (get_u16(Advance(buf, 2)) \div 16384) % 2 = 1,
           device_manufacturer_name          |-> get_u32(Advance(buf, 4)),
           model_name                        |-> get_u32(Advance(buf, 8)),
           reader_firmware_version           |-> firmware,
           receive_sensitivity_table_entries |-> <<>>,
           gpio_capabilities                 |-> <<>>,
           antenna_air_protocols             |-> <<>> ])

\* after the fixed fields: `n` firmware bytes, the zero byte if there is one,
\* then the sub-parameters
GeneralDeviceCapabilities_firmware(buf, tail, n) ==
  IF ~from_utf8_ok(SubSeq(tail, 1, n)) THEN Err
  ELSE GeneralDeviceCapabilities_parsed(
         parse_parameters(Advance(tail, IF n < Len(tail) THEN n + 1 ELSE n)),
         buf, SubSeq(tail, 1, n))

\* checks 9 bytes, then reads 2 + 2 + 4 + 4
GeneralDeviceCapabilities_decode(buf) ==
  IF Len(buf) < 9 THEN Err
  ELSE IF Len(buf) < 12 THEN Panic
  ELSE GeneralDeviceCapabilities_firmware(buf, Advance(buf, 12),
                                          firmware_len(Advance(buf, 12)))

(* ------------------------------------------------------------------------ *)
(* LlrpResponse::decode (llrp.rs)                                           *)
(* ------------------------------------------------------------------------ *)

ReaderCapabilities_one(param) ==
  IF param.param_type = "GeneralDeviceCapabilities"
  THEN GeneralDeviceCapabilities_decode(param.param_value)
  ELSE IF param.param_type = "LLRPCapabilities"
  THEN LLRPCapabilities_decode(param.param_value)
  ELSE IF param.param_type = "RegulatoryCapabilities"
  THEN RegulatoryCapabilities_decode(param.param_value)
  ELSE Ok(<<>>)

RECURSIVE ReaderCapabilities_loop(_, _)

ReaderCapabilities_next(r, param_type, rest, parsed_params) ==
  IF r.status # "ok" THEN r
  ELSE ReaderCapabilities_loop(rest,
         IF param_type \in
              {"GeneralDeviceCapabilities", "LLRPCapabilities", "RegulatoryCapabilities"}
         THEN Append(parsed_params, [name |-> param_type, value |-> r.data])
         ELSE parsed_params)

\* the for loop of the GetReaderCapabilitiesResponse arm
ReaderCapabilities_loop(parameters, parsed_params) ==
  IF parameters = <<>>
  THEN Ok([kind |-> "ReaderCapabilities", items |-> parsed_params])
  ELSE ReaderCapabilities_next(ReaderCapabilities_one(Head(parameters)),
                               Head(parameters).param_type, Tail(parameters),
                               parsed_params)

TagReport_one(parameter) ==
  IF parameter.param_type = "TagReportData"
  THEN TagReportData_decode(parameter.param_value)
  ELSE Ok(<<>>)

RECURSIVE TagReport_loop(_, _)

TagReport_next(r, param_type, rest, tag_reports) ==
  IF r.status # "ok" THEN r
  ELSE TagReport_loop(rest,
         IF param_type = "TagReportData" THEN Append(tag_reports, [epc |-> r.data])
         ELSE tag_reports)

\* the for loop of the ROAccessReport arm
TagReport_loop(parameters, tag_reports) ==
  IF parameters = <<>>
  THEN Ok([kind |-> "TagReport", items |-> tag_reports])
  ELSE TagReport_next(TagReport_one(Head(parameters)),
                      Head(parameters).param_type, Tail(parameters), tag_reports)

LlrpResponse_parsed(message_type, parsed) ==
  IF parsed.status # "ok" THEN parsed
  ELSE IF message_type = "GetReaderCapabilitiesResponse"
  THEN ReaderCapabilities_loop(parsed.data, <<>>)
  ELSE TagReport_loop(parsed.data, <<>>)

\* every message type other than the two arms is "Unsupported message type"
LlrpResponse_decode(response) ==
  IF response.message_type \in {"GetReaderCapabilitiesResponse", "ROAccessReport"}
  THEN LlrpResponse_parsed(response.message_type, parse_parameters(response.payload))
  ELSE Err

(* ------------------------------------------------------------------------ *)
(* LlrpMessage: new, encode, decode (llrp.rs)                               *)
(* ------------------------------------------------------------------------ *)

\* a | b on unsigned integers
RECURSIVE BitOr(_, _)
BitOr(a, b) ==
  IF a = 0 THEN b
  ELSE IF b = 0 THEN a
  ELSE (IF a % 2 = 1 \/ b % 2 = 1 THEN 1 ELSE 0) + 2 * BitOr(a \div 2, b \div 2)

\* buffer.put_u16(v)
put_u16(v) == << v \div 256, v % 256 >>

\* buffer.put_u32(w), w a u32 as its two 16-bit halves (high, low)
put_u32(w) == put_u16(w[1]) \o put_u16(w[2])

\* `n as u32` for a length n
as_u32(n) == << n \div 65536, n % 65536 >>

\* LlrpMessage::new: the length is computed from the payload
LlrpMessage_new(mtype, id, payload) ==
  [ message_type   |-> mtype,
    message_length |-> as_u32(10 + Len(payload)),
    message_id     |-> id,
    payload        |-> payload ]

\* the 16-bit word of the header as encode computes it, without the version
version_and_type_unversioned(type_value) == type_value % 16384

\* ((padding & 0x7) << 13) | ((version & 0x7) << 10) | (value & 0x3FFF)
version_and_type(type_value) ==
  BitOr(BitOr((0 % 8) * 8192, (1 % 8) * 1024), type_value % 16384)

\* LlrpMessage::encode
LlrpMessage_encode(m) ==
  put_u16(version_and_type(MessageType_value(m.message_type)) % 65536)
    \o put_u32(m.message_length) \o put_u32(m.message_id) \o m.payload

\* message_length - 10 on u32: below 10 a build with overflow checks panics,
\* one without wraps around
u32_sub_10(w, overflow_checks) ==
  IF w[1] = 0 /\ w[2] < 10
  THEN IF overflow_checks THEN Panic ELSE Ok(<< 65535, 65536 - (10 - w[2]) >>)
  ELSE IF w[2] >= 10 THEN Ok(<< w[1], w[2] - 10 >>)
  ELSE Ok(<< w[1] - 1, w[2] + 65536 - 10 >>)

\* decode without the check of the remaining bytes against the length
LlrpMessage_decode_payload_unchecked(message_type_value, message_length, id, rest, n) ==
  IF n.status # "ok" THEN n
  ELSE IF MessageType_from_value(message_type_value) = NoVariant THEN Err
  ELSE Ok([ message_type   |-> MessageType_from_value(message_type_value),
            message_length |-> message_length,
            message_id     |-> id,
            payload        |-> rest ])

\* decode after the subtraction: the check of the remaining bytes against
\* (message_length - 10) as usize, split_to, then the lookup of the type
LlrpMessage_decode_payload(message_type_value, message_length, id, rest, n) ==
  IF n.status # "ok" THEN n
  ELSE IF n.data[1] > 0 \/ Len(rest) < n.data[2] THEN Err
  ELSE IF MessageType_from_value(message_type_value) = NoVariant THEN Err
  ELSE Ok([ message_type   |-> MessageType_from_value(message_type_value),
            message_length |-> message_length,
            message_id     |-> id,
            payload        |-> SubSeq(rest, 1, n.data[2]) ])

\* LlrpMessage::decode, in a build with or without overflow checks
LlrpMessage_decode(buf, overflow_checks) ==
  IF Len(buf) < 10 THEN Err
  ELSE LlrpMessage_decode_payload(
         get_u16(buf) % 1024,
         get_u32(Advance(buf, 2)),
         get_u32(Advance(buf, 6)),
         Advance(buf, 10),
         u32_sub_10(get_u32(Advance(buf, 2)), overflow_checks))

\* a decode that empties the buffer it was handed
LlrpMessage_decode_rest_cleared(buf, overflow_checks) == <<>>

\* what LlrpMessage::decode leaves of its &mut BytesMut: untouched below 10
\* bytes, without the header once the three fields are read, and without the
\* payload too once split_to has run (also when the type lookup then fails)
LlrpMessage_decode_rest(buf, overflow_checks) ==
  IF Len(buf) < 10 THEN buf
  ELSE IF u32_sub_10(get_u32(Advance(buf, 2)), overflow_checks).status # "ok"
  THEN Advance(buf, 10)
  ELSE IF u32_sub_10(get_u32(Advance(buf, 2)), overflow_checks).data[1] > 0
          \/ Len(buf) - 10 < u32_sub_10(get_u32(Advance(buf, 2)), overflow_checks).data[2]
  THEN Advance(buf, 10)
  ELSE Advance(buf, 10 + u32_sub_10(get_u32(Advance(buf, 2)), overflow_checks).data[2])

\* receive_loop over the bytes it has read so far: every pass needs 10 bytes
\* and then message_length bytes in buf (else it reads on), returns on a
\* length below 10 and on a decode error, and leaves in buf what decode left
RECURSIVE receive_loop_buffered(_, _, _)

receive_loop_decoded(llrp_message, rest, decoded, overflow_checks) ==
  IF llrp_message.status # "ok"
  THEN [status |-> "return", messages |-> decoded, buf |-> rest]
  ELSE receive_loop_buffered(rest, Append(decoded, llrp_message.data), overflow_checks)

receive_loop_buffered(buf, decoded, overflow_checks) ==
  IF Len(buf) < 10
  THEN [status |-> "read", messages |-> decoded, buf |-> buf]
  ELSE IF get_u32(Advance(buf, 2))[1] = 0 /\ get_u32(Advance(buf, 2))[2] < 10
  THEN [status |-> "return", messages |-> decoded, buf |-> buf]
  ELSE IF get_u32(Advance(buf, 2))[1] > 0 \/ Len(buf) < get_u32(Advance(buf, 2))[2]
  THEN [status |-> "read", messages |-> decoded, buf |-> buf]
  ELSE receive_loop_decoded(LlrpMessage_decode(buf, overflow_checks),
                            LlrpMessage_decode_rest(buf, overflow_checks),
                            decoded, overflow_checks)

(* ------------------------------------------------------------------------ *)
(* LlrpMessage: new_set_reader_config, new_add_rospec (llrp.rs)             *)
(* ------------------------------------------------------------------------ *)

\* Parameter { param_type, payload }
Parameter(param_type, payload) == [param_type |-> param_type, payload |-> payload]

\* encode_parameter with the placeholder of the length left in place
backpatch_placeholder(type_value, body) ==
  put_u16(type_value) \o put_u16(0) \o body

\* encode_parameter around what it emits between the header and the end: the
\* type, the length (final_length_pos - initial_length_pos) as u16, the body
backpatch(type_value, body) ==
  put_u16(type_value) \o put_u16((4 + Len(body)) % 65536) \o body

\* the match of new_set_reader_config's encode_parameter
set_reader_config_fields(param_type, config) ==
  CASE param_type = "AntennaConfiguration" -> put_u16(0)
    [] param_type = "RFReceiver"    -> put_u16(config.rx_power_table_index)
    [] param_type = "RFTransmitter" ->
         put_u16(config.hop_table_id) \o put_u16(config.channel_index)
           \o put_u16(config.tx_power_table_index)
    [] OTHER -> <<>>

RECURSIVE set_reader_config_encode_parameter(_, _)

\* for sub_param in &param.payload
RECURSIVE set_reader_config_sub_params(_, _)
set_reader_config_sub_params(sub_params, config) ==
  IF sub_params = <<>> THEN <<>>
  ELSE set_reader_config_encode_parameter(Head(sub_params), config)
         \o set_reader_config_sub_params(Tail(sub_params), config)

set_reader_config_encode_parameter(param, config) ==
  backpatch(ParameterType_value(param.param_type),
            set_reader_config_fields(param.param_type, config)
              \o set_reader_config_sub_params(param.payload, config))

rf_receiver == Parameter("RFReceiver", <<>>)
rf_transmitter == Parameter("RFTransmitter", <<>>)
antenna_configuration == Parameter("AntennaConfiguration", << rf_receiver, rf_transmitter >>)

\* ResetToFactoryDefault, then the AntennaConfiguration
new_set_reader_config(message_id, config) ==
  LlrpMessage_new("SetReaderConfig", message_id,
                  <<128>> \o set_reader_config_encode_parameter(antenna_configuration, config))

\* the statically sized TLVs the arms of new_add_rospec's match write
ROSpecStartTrigger_tlv(config) ==
  put_u16(ParameterType_value("ROSpecStartTrigger")) \o put_u16(5)
    \o << config.ROSpecStartTriggerType >>

ROSpecStopTrigger_tlv(config) ==
  put_u16(ParameterType_value("ROSpecStopTrigger")) \o put_u16(9)
    \o << config.ROSpecStopTriggerType >> \o put_u32(<<0, 0>>)

AISpecStopTrigger_tlv(config) ==
  put_u16(ParameterType_value("AISpecStopTrigger")) \o put_u16(9)
    \o << config.AISpecStopTriggerType >> \o put_u32(<<0, 0>>)

InventoryParameterSpec_tlv(config) ==
  put_u16(ParameterType_value("InventoryParameterSpec")) \o put_u16(7)
    \o put_u16(config.InventoryParamSpecID) \o << config.AIProtocol >>

TagReportContentSelector_tlv(config) ==
  put_u16(ParameterType_value("TagReportContentSelector")) \o put_u16(6)
    \o put_u16(config.ReportContentSelector)

\* for antenna_id in &config.antennas { buffer.put_u16(*antenna_id) }
put_antennas(antennas) ==
  [ i \in 1..(2 * Len(antennas)) |->
      IF i % 2 = 1 THEN antennas[(i + 1) \div 2] \div 256 ELSE antennas[i \div 2] % 256 ]

\* the match of new_add_rospec's encode_parameter
add_rospec_fields(param_type, config) ==
  CASE param_type = "ROSpec" ->
         put_u32(config.rospec_id) \o << config.priority, 0 >>
    [] param_type = "ROBoundarySpec" ->
         ROSpecStartTrigger_tlv(config) \o ROSpecStopTrigger_tlv(config)
    [] param_type = "AISpec" ->
         put_u16(config.antenna_count) \o put_antennas(config.antennas)
           \o AISpecStopTrigger_tlv(config) \o InventoryParameterSpec_tlv(config)
    [] param_type = "ROReportSpec" ->
         << config.ROReportTriggerType >> \o put_u16(config.ROReportTrigger_N)
           \o TagReportContentSelector_tlv(config)
    [] OTHER -> <<>>

RECURSIVE add_rospec_encode_parameter(_, _)

\* for sub_param in &param.payload
RECURSIVE add_rospec_sub_params(_, _)
add_rospec_sub_params(sub_params, config) ==
  IF sub_params = <<>> THEN <<>>
  ELSE add_rospec_encode_parameter(Head(sub_params), config)
         \o add_rospec_sub_params(Tail(sub_params), config)

add_rospec_encode_parameter(param, config) ==
  backpatch(ParameterType_value(param.param_type),
            add_rospec_fields(param.param_type, config)
              \o add_rospec_sub_params(param.payload, config))

ro_boundary_spec == Parameter("ROBoundarySpec", <<>>)
ai_spec == Parameter("AISpec", <<>>)
ro_report_spec == Parameter("ROReportSpec", <<>>)
ro_spec == Parameter("ROSpec", << ro_boundary_spec, ai_spec, ro_report_spec >>)

new_add_rospec(message_id, config) ==
  LlrpMessage_new("AddROSpec", message_id, add_rospec_encode_parameter(ro_spec, config))

\* what one emitted TLV says of itself and what was emitted for it
Tlv(octets) ==
  [ param_type |-> get_u16(octets),
    length     |-> get_u16(Advance(octets, 2)),
    octets     |-> Len(octets) ]

\* every TLV new_add_rospec emits
add_rospec_emitted(config) ==
  { Tlv(add_rospec_encode_parameter(ro_spec, config)),
    Tlv(add_rospec_encode_parameter(ro_boundary_spec, config)),
    Tlv(ROSpecStartTrigger_tlv(config)),
    Tlv(ROSpecStopTrigger_tlv(config)),
    Tlv(add_rospec_encode_parameter(ai_spec, config)),
    Tlv(AISpecStopTrigger_tlv(config)),
    Tlv(InventoryParameterSpec_tlv(config)),
    Tlv(add_rospec_encode_parameter(ro_report_spec, config)),
    Tlv(TagReportContentSelector_tlv(config)) }

\* every TLV new_set_reader_config emits
set_reader_config_emitted(config) ==
  { Tlv(set_reader_config_encode_parameter(antenna_configuration, config)),
    Tlv(set_reader_config_encode_parameter(rf_receiver, config)),
    Tlv(set_reader_config_encode_parameter(rf_transmitter, config)) }

(* ------------------------------------------------------------------------ *)
(* The session (client.rs)                                                  *)
(* ------------------------------------------------------------------------ *)

VARIABLES
  message_id,     \* LlrpClient.message_id
  writer_lock,    \* holder of the Mutex around the write half
  reader_lock,    \* holder of the Mutex around the read half
  message_tx,     \* live Sender handles of the message channel
  ro_report_tx,   \* live Sender handles of the report channel
  message_rx,     \* the Receiver send_message subscribed, if any
  ro_report_rx,   \* the Receiver await_ro_access_report subscribed, if any
  pc,             \* where the caller is inside the verb it invoked
  cur,            \* the verb in flight
  loop_pc,        \* the spawned receive_loop task
  wire,           \* requests written to the socket, in order
  unanswered,     \* indices of wire the reader has not answered
  server_open,    \* the reader's end of the connection
  unsolicited,    \* frames the reader has emitted on its own
  log,            \* verbs that returned, in order
  script,         \* verbs the caller is still to invoke (scripted run)
  call            \* the last call of a codec function: its input and result

vars == << message_id, writer_lock, reader_lock, message_tx, ro_report_tx,
           message_rx, ro_report_rx, pc, cur, loop_pc, wire, unanswered,
           server_open, unsolicited, log, script, call >>

\* verb -> the request it builds and the response type it passes to send_message
VerbTable ==
  [ send_close_connection          |-> [request |-> "CloseConnection",
                                        expected |-> "CloseConnectionResponse"],
    send_keep_alive                |-> [request |-> "Keepalive",
                                        expected |-> "KeepaliveAck"],
    send_enable_events_and_reports |-> [request |-> "EnableEventsAndReports",
                                        expected |-> "None"],
    send_get_reader_capabilities   |-> [request |-> "GetReaderCapabilities",
                                        expected |-> "GetReaderCapabilitiesResponse"],
    send_get_reader_config         |-> [request |-> "GetReaderConfig",
                                        expected |-> "GetReaderConfigResponse"],
    send_set_reader_config         |-> [request |-> "SetReaderConfig",
                                        expected |-> "SetReaderConfigResponse"],
    send_add_rospec                |-> [request |-> "AddROSpec",
                                        expected |-> "AddROspecResponse"],
    send_enable_rospec             |-> [request |-> "EnableROSpec",
                                        expected |-> "EnableROSpecResponse"],
    send_start_rospec              |-> [request |-> "StartROSpec",
                                        expected |-> "StartROSpecResponse"],
    send_stop_rospec               |-> [request |-> "StopROSpec",
                                        expected |-> "StopROSpecResponse"],
    send_delete_rospec             |-> [request |-> "DeleteROSpec",
                                        expected |-> "DeleteROSpecResponse"] ]

SendVerbs == DOMAIN VerbTable

AwaitVerb == "await_ro_access_report"

\* the verbs a caller of the free run chooses from
FreeVerbs ==
  { "send_keep_alive", "send_add_rospec", "send_enable_events_and_reports",
    "send_close_connection", "send_get_reader_capabilities",
    "send_get_reader_config", AwaitVerb }

\* main.rs: the session the commented-out body of main performs
HappyPath ==
  << "send_delete_rospec", "send_set_reader_config",
     "send_enable_events_and_reports", "send_add_rospec", "send_enable_rospec",
     "send_start_rospec", AwaitVerb, "send_stop_rospec", "send_close_connection" >>

\* a Receiver: the retained messages it has not seen and how many it missed
NoRx    == [open |-> FALSE, buf |-> <<>>, lagged |-> 0]
FreshRx == [open |-> TRUE,  buf |-> <<>>, lagged |-> 0]

\* Sender::subscribe(): a Receiver that sees only what is sent from now on
subscribe == FreshRx

\* Sender::send(): with no Receiver the value is dropped (the Err is ignored by
\* `let _ =`); a Receiver more than the capacity behind loses the oldest
broadcast_send(rx, value) ==
  IF ~rx.open THEN rx
  ELSE IF Len(rx.buf) >= ChannelCapacity
  THEN [rx EXCEPT !.buf = Append(Tail(@), value), !.lagged = @ + 1]
  ELSE [rx EXCEPT !.buf = Append(@, value)]

\* a Receiver to which falling behind is the end of the channel
broadcast_recv_failing(rx, senders) ==
  IF rx.lagged > 0 \/ (rx.buf = <<>> /\ senders = {})
  THEN [kind |-> "Closed", rx |-> rx]
  ELSE IF rx.buf # <<>>
  THEN [kind |-> "Msg", rx |-> [rx EXCEPT !.buf = Tail(@)]]
  ELSE [kind |-> "Pending", rx |-> rx]

\* Receiver::recv(): Lagged first, then the oldest retained message, then
\* Closed once no Sender is left, else it stays pending
broadcast_recv(rx, senders) ==
  IF rx.lagged > 0 THEN [kind |-> "Lagged", rx |-> [rx EXCEPT !.lagged = 0]]
  ELSE IF rx.buf # <<>>
  THEN [kind |-> "Msg", rx |-> [rx EXCEPT !.buf = Tail(@)]]
  ELSE IF senders = {} THEN [kind |-> "Closed", rx |-> rx]
  ELSE [kind |-> "Pending", rx |-> rx]

\* the handles initialize() leaves alive: the client's and the spawned task's
\* (the local message_tx is dropped when initialize returns)
InitialSenders == {"client", "receive_loop"}

NoVerb ==
  [ verb |-> "none", id |-> 0, expected |-> "None", elapsed |-> 0, armed |-> 0,
    received |-> 0, lagged |-> 0, loop_at_call |-> "running" ]

NoResponse == [message_type |-> "None", message_id |-> 0, payload |-> <<>>]

\* LlrpMessage::new + encode as the reader sees it: the frame's header fields
Frame(mtype, id, payload) ==
  [ type_value |-> MessageType_value(mtype),
    length     |-> 10 + Len(payload),
    id         |-> id,
    payload    |-> payload ]

\* LlrpResponse::from_message(LlrpMessage::decode(frame))
from_message(frame) ==
  [ message_type |-> MessageType_from_value(frame.type_value),
    message_id   |-> frame.id,
    payload      |-> frame.payload ]

\* one TagReportData holding an EPC96
GoodReport == <<0, 240, 0, 17, 141, 1, 2, 3, 4, 5, 6, 7, 8, 9, 10, 11, 12>>

\* a TLV header whose length is below 4
BadReport == <<0, 240, 0, 3>>

\* a GeneralDeviceCapabilities value in the layout GeneralDeviceCapabilities::
\* decode reads: 1 antenna, can_set_antenna_properties, manufacturer 1,
\* model 2, firmware "A" and its terminating zero, no sub-parameters
GdcValue == <<0, 1, 128, 0, 0, 0, 0, 1, 0, 0, 0, 2, 65, 0>>

\* an LLRPStatus followed by the GeneralDeviceCapabilities TLV holding GdcValue
GdcCapabilitiesPayload == <<1, 31, 0, 8, 0, 0, 0, 0, 0, 137, 0, 18>> \o GdcValue

\* payloads the reader puts in a GetReaderCapabilitiesResponse: an LLRPStatus
\* alone, an LLRPStatus followed by an empty GeneralDeviceCapabilities, and
\* one followed by a GeneralDeviceCapabilities with its fields
CapabilitiesPayloads ==
  { <<1, 31, 0, 8, 0, 0, 0, 0>>,
    <<1, 31, 0, 8, 0, 0, 0, 0, 0, 137, 0, 4>>,
    GdcCapabilitiesPayload }

\* frames the reader may emit on its own: a Keepalive, reports, an event
\* notification, a header with length 9, a header with an unregistered type
UnsolicitedFrames ==
  { Frame("Keepalive", 0, <<>>),
    Frame("ROAccessReport", 0, GoodReport),
    Frame("ROAccessReport", 0, BadReport),
    Frame("ReaderEventNotification", 0, <<>>),
    [type_value |-> 62, length |-> 9, id |-> 0, payload |-> <<>>],
    [type_value |-> 99, length |-> 10, id |-> 0, payload |-> <<>>] }

\* no codec function called yet
NoCall == [op |-> "none", input |-> <<>>, output |-> <<>>]

Init ==
  /\ call = NoCall
  /\ message_id = 1001
  /\ writer_lock = "free"
  /\ reader_lock = "receive_loop"
  /\ message_tx = InitialSenders
  /\ ro_report_tx = InitialSenders
  /\ message_rx = NoRx
  /\ ro_report_rx = NoRx
  /\ pc = "idle"
  /\ cur = NoVerb
  /\ loop_pc = "running"
  /\ wire = <<>>
  /\ unanswered = {}
  /\ server_open = TRUE
  /\ unsolicited = 0
  /\ log = <<>>
  /\ script = <<>>

InitHappy ==
  /\ call = NoCall
  /\ message_id = 1001
  /\ writer_lock = "free"
  /\ reader_lock = "receive_loop"
  /\ message_tx = InitialSenders
  /\ ro_report_tx = InitialSenders
  /\ message_rx = NoRx
  /\ ro_report_rx = NoRx
  /\ pc = "idle"
  /\ cur = NoVerb
  /\ loop_pc = "running"
  /\ wire = <<>>
  /\ unanswered = {}
  /\ server_open = TRUE
  /\ unsolicited = 0
  /\ log = <<>>
  /\ script = HappyPath

(* ------------------------------------------------------------------------ *)
(* Verbs                                                                    *)
(* ------------------------------------------------------------------------ *)

\* the counter as it would be left by a next_message_id without its increment
next_message_id_reused == message_id

\* next_message_id: post-increment of the counter (a u32; a session of
\* MaxVerbs verbs stays far below its wrap-around)
next_message_id == message_id + 1

\* a wait re-armed with the whole timeout_duration on every pass of the loop
RemainingTimeout_full(elapsed) == ResponseTimeout

\* timeout_duration - elapsed: what each timeout(..) around recv() is armed with
RemainingTimeout(elapsed) == ResponseTimeout - elapsed

\* a verb that calls back with nothing and reports success when decode fails
Decoded_lenient(decoded) ==
  IF decoded.status = "ok"
  THEN [result |-> "Ok", callbacks |-> 1, data |-> <<decoded.data>>]
  ELSE [result |-> "Ok", callbacks |-> 1, data |-> <<>>]

\* What the verb returns, given what send_message (or the report wait)
\* returned: close_connection swallows the result, the two get_* verbs and
\* await_ro_access_report decode the response and call the callback once.
Decoded(decoded) ==
  IF decoded.status = "ok"
  THEN [result |-> "Ok", callbacks |-> 1, data |-> <<decoded.data>>]
  ELSE IF decoded.status = "panic"
  THEN [result |-> "Panic", callbacks |-> 0, data |-> <<>>]
  ELSE [result |-> "DecodeError", callbacks |-> 0, data |-> <<>>]

\* the outcome of a verb that hands every result of send_message on, `?` style
VerbOutcome_propagating(verb, send_result, response) ==
  IF send_result = "Ok" /\ verb \in
       {"send_get_reader_capabilities", "send_get_reader_config", AwaitVerb}
  THEN Decoded(LlrpResponse_decode(response))
  ELSE [result |-> send_result, callbacks |-> 0, data |-> <<>>]

VerbOutcome(verb, send_result, response) ==
  IF verb = "send_close_connection"
  THEN [result |-> "Ok", callbacks |-> 0, data |-> <<>>]
  ELSE IF send_result = "Ok" /\ verb \in
            {"send_get_reader_capabilities", "send_get_reader_config", AwaitVerb}
  THEN Decoded(LlrpResponse_decode(response))
  ELSE [result |-> send_result, callbacks |-> 0, data |-> <<>>]

\* What each returned verb leaves in `log`: what it was called with, what
\* send_message or the report wait gave it, what it returned, and the state of
\* the session around it (received, lagged: the messages and Lagged signals its
\* Receiver yielded; answered: the reader had answered its request by then).
LogFrom(c, send_result, response, outcome) ==
  [ verb           |-> c.verb,
    id             |-> c.id,
    expected       |-> c.expected,
    send_result    |-> send_result,
    response       |-> response,
    result         |-> outcome.result,
    callbacks      |-> outcome.callbacks,
    data           |-> outcome.data,
    elapsed        |-> c.elapsed,
    received       |-> c.received,
    lagged         |-> c.lagged,
    answered       |-> \E k \in 1..Len(wire) :
                         wire[k].message_id = c.id /\ k \notin unanswered,
    loop_at_call   |-> c.loop_at_call,
    loop_at_return |-> loop_pc ]

LogEntry(c, send_result, response) ==
  LogFrom(c, send_result, response, VerbOutcome(c.verb, send_result, response))

\* the verb returns: its Receiver goes out of scope with it
Return(c, send_result, response) ==
  /\ log' = Append(log, LogEntry(c, send_result, response))
  /\ pc' = "idle"
  /\ cur' = NoVerb
  /\ message_rx' = NoRx
  /\ ro_report_rx' = NoRx

\* a send_* verb: take the next id and build the message
StartSend(verb) ==
  /\ pc = "idle"
  /\ cur' = [ verb |-> verb, id |-> message_id,
              expected |-> VerbTable[verb].expected,
              elapsed |-> 0, armed |-> 0, received |-> 0, lagged |-> 0,
              loop_at_call |-> loop_pc ]
  /\ message_id' = next_message_id
  /\ pc' = "lock"
  /\ UNCHANGED << writer_lock, reader_lock, message_tx, ro_report_tx, message_rx,
                  ro_report_rx, loop_pc, wire, unanswered, server_open,
                  unsolicited, log >>
  /\ UNCHANGED call

\* await_ro_access_report up to its first recv(): subscribe, start the clock
StartAwait ==
  /\ pc = "idle"
  /\ ro_report_rx' = subscribe
  /\ cur' = [ verb |-> AwaitVerb, id |-> 0, expected |-> "ROAccessReport",
              elapsed |-> 0, armed |-> RemainingTimeout(0), received |-> 0,
              lagged |-> 0, loop_at_call |-> loop_pc ]
  /\ pc' = "report_recv"
  /\ UNCHANGED << message_id, writer_lock, reader_lock, message_tx, ro_report_tx,
                  message_rx, loop_pc, wire, unanswered, server_open,
                  unsolicited, log >>
  /\ UNCHANGED call

CallVerb(verb) ==
  /\ script = <<>>
  /\ Len(log) < MaxVerbs
  /\ StartSend(verb)
  /\ UNCHANGED script

CallAwait ==
  /\ script = <<>>
  /\ Len(log) < MaxVerbs
  /\ StartAwait
  /\ UNCHANGED script

\* main.rs: the next verb of the scripted session
ScriptedCall ==
  /\ script # <<>>
  /\ IF Head(script) = AwaitVerb THEN StartAwait ELSE StartSend(Head(script))
  /\ script' = Tail(script)

\* one Mutex around the unsplit TcpStream, held by the loop while it reads
WriterFree_unsplit == writer_lock = "free" /\ reader_lock = "free"

\* self.writer is the Mutex of the WriteHalf alone (split(stream)): it is free
\* whenever no send_message holds it, whoever holds self.reader
WriterFree == writer_lock = "free"

\* send_message: self.writer.lock().await
LockWriter ==
  /\ pc = "lock"
  /\ WriterFree
  /\ writer_lock' = "send_message"
  /\ pc' = "write"
  /\ UNCHANGED << message_id, reader_lock, message_tx, ro_report_tx, message_rx,
                  ro_report_rx, cur, loop_pc, wire, unanswered,
                  server_open, unsolicited, log, script >>
  /\ UNCHANGED call

\* a write on a connection the peer has closed may fail
WriteOutcomes == IF server_open THEN {"Ok"} ELSE {"Ok", "WriteError"}

\* send_message: write_all, the guard dropped at the end of the block (also on
\* the ? return), then the return for a verb that expects no response
WriteAll ==
  /\ pc = "write"
  /\ writer_lock' = "free"
  /\ \E written \in WriteOutcomes :
       IF written = "WriteError"
       THEN /\ Return(cur, "WriteError", NoResponse)
            /\ UNCHANGED << wire, unanswered >>
       ELSE /\ wire' = Append(wire, [ message_type |-> VerbTable[cur.verb].request,
                                      message_id   |-> cur.id ])
            /\ unanswered' = IF cur.expected = "None" THEN unanswered
                             ELSE unanswered \cup {Len(wire) + 1}
            /\ IF cur.expected = "None"
               THEN Return(cur, "Ok", [NoResponse EXCEPT !.message_id = cur.id])
               ELSE /\ pc' = "subscribe"
                    /\ UNCHANGED << cur, log, message_rx, ro_report_rx >>
  /\ UNCHANGED << message_id, reader_lock, message_tx, ro_report_tx, loop_pc,
                  server_open, unsolicited, script >>
  /\ UNCHANGED call

\* send_message: self.message_tx.subscribe(), start_time, the first loop pass
Subscribe ==
  /\ pc = "subscribe"
  /\ message_rx' = subscribe
  /\ cur' = [cur EXCEPT !.elapsed = 0, !.armed = RemainingTimeout(0)]
  /\ pc' = "recv"
  /\ UNCHANGED << message_id, writer_lock, reader_lock, message_tx, ro_report_tx,
                  ro_report_rx, loop_pc, wire, unanswered, server_open,
                  unsolicited, log, script >>
  /\ UNCHANGED call

\* the top of the wait loop after a skipped message or a Lagged: the elapsed
\* check, then timeout(timeout_duration - elapsed, recv())
Rewait(c, rx_var_is_message, rx) ==
  IF c.elapsed >= ResponseTimeout
  THEN Return(c, "TimedOut", NoResponse)
  ELSE /\ cur' = [c EXCEPT !.armed = c.elapsed + RemainingTimeout(c.elapsed)]
       /\ IF rx_var_is_message
          THEN message_rx' = rx /\ UNCHANGED ro_report_rx
          ELSE ro_report_rx' = rx /\ UNCHANGED message_rx
       /\ UNCHANGED << pc, log >>

\* send_message: one completion of timeout(.., message_rx.recv())
SendMessageRecv ==
  /\ pc = "recv"
  /\ LET r == broadcast_recv(message_rx, message_tx)
     IN CASE r.kind = "Msg" ->
               LET llrp_response == Head(message_rx.buf)
                   c == [cur EXCEPT !.received = @ + 1]
               IN IF llrp_response.message_type = cur.expected
                  THEN Return(c, "Ok", llrp_response)
                  ELSE Rewait(c, TRUE, r.rx)
          [] r.kind = "Closed"  -> Return(cur, "UnexpectedEof", NoResponse)
          [] r.kind = "Lagged"  -> Rewait([cur EXCEPT !.lagged = @ + 1], TRUE, r.rx)
          [] r.kind = "Pending" -> /\ cur.elapsed >= cur.armed
                                   /\ Return(cur, "TimedOut", NoResponse)
  /\ UNCHANGED << message_id, writer_lock, reader_lock, message_tx, ro_report_tx,
                  loop_pc, wire, unanswered, server_open, unsolicited,
                  script >>
  /\ UNCHANGED call

\* await_ro_access_report: one completion of timeout(.., ro_report_rx.recv())
AwaitRecv ==
  /\ pc = "report_recv"
  /\ LET r == broadcast_recv(ro_report_rx, ro_report_tx)
     IN CASE r.kind = "Msg" ->
               Return([cur EXCEPT !.received = @ + 1], "Ok", Head(ro_report_rx.buf))
          [] r.kind = "Closed"  -> Return(cur, "UnexpectedEof", NoResponse)
          [] r.kind = "Lagged"  -> Rewait([cur EXCEPT !.lagged = @ + 1], FALSE, r.rx)
          [] r.kind = "Pending" -> /\ cur.elapsed >= cur.armed
                                   /\ Return(cur, "TimedOut", NoResponse)
  /\ UNCHANGED << message_id, writer_lock, reader_lock, message_tx, ro_report_tx,
                  loop_pc, wire, unanswered, server_open, unsolicited,
                  script >>
  /\ UNCHANGED call

\* time passes for the waiting verb, up to the moment its armed timeout fires
Tick ==
  /\ pc \in {"recv", "report_recv"}
  /\ cur.elapsed < cur.armed
  /\ cur' = [cur EXCEPT !.elapsed = @ + 1]
  /\ UNCHANGED << message_id, writer_lock, reader_lock, message_tx, ro_report_tx,
                  message_rx, ro_report_rx, pc, loop_pc, wire, unanswered,
                  server_open, unsolicited, log, script >>
  /\ UNCHANGED call

(* ------------------------------------------------------------------------ *)
(* The reader at the other end                                              *)
(* ------------------------------------------------------------------------ *)

\* the response type the reader sends for a request
ReaderResponseType(request_type) ==
  LET verb == CHOOSE v \in SendVerbs : VerbTable[v].request = request_type
  IN VerbTable[verb].expected

ResponsePayloads(response_type) ==
  IF response_type = "GetReaderCapabilitiesResponse" THEN CapabilitiesPayloads
  ELSE {<<>>}

\* the frames that answer a request the reader has read and not yet answered
ResponseFrames ==
  UNION { { [ frame   |-> Frame(ReaderResponseType(wire[i].message_type),
                                wire[i].message_id, payload),
              answers |-> i ] :
            payload \in ResponsePayloads(ReaderResponseType(wire[i].message_type)) } :
          i \in unanswered }

\* what the reader may send next: an answer, in any order, or a frame of its own
ReaderFrames ==
  ResponseFrames \cup
  IF unsolicited < MaxUnsolicited
  THEN { [frame |-> f, answers |-> 0] : f \in UnsolicitedFrames }
  ELSE {}

(* ------------------------------------------------------------------------ *)
(* The receive loop                                                         *)
(* ------------------------------------------------------------------------ *)

\* the task returns: its Sender clones and the reader guard are dropped
LoopExit ==
  /\ loop_pc' = "exited"
  /\ message_tx' = message_tx \ {"receive_loop"}
  /\ ro_report_tx' = ro_report_tx \ {"receive_loop"}
  /\ reader_lock' = "free"
  /\ UNCHANGED << message_rx, ro_report_rx >>

\* a loop that sends every decoded response to the message channel
Dispatch_to_message_tx(llrp_response) == "message_tx"

\* where the match on message_type sends a decoded response
Dispatch(llrp_response) ==
  IF llrp_response.message_type = "ROAccessReport" THEN "ro_report_tx"
  ELSE IF llrp_response.message_type = "ReaderEventNotification" THEN "continue"
  ELSE "message_tx"

\* a loop that passes a message of unknown type on
FatalFrame_known_or_not(frame, llrp_response) == frame.length < 10

\* a loop that accepts a header of any length
FatalFrame_unchecked(frame, llrp_response) ==
  llrp_response.message_type = NoVariant

\* a loop that decodes the body of a report and returns its error
FatalFrame_decoding(frame, llrp_response) ==
  \/ frame.length < 10
  \/ llrp_response.message_type = NoVariant
  \/ /\ llrp_response.message_type = "ROAccessReport"
     /\ LlrpResponse_decode(llrp_response).status # "ok"

\* the frames on which the loop returns an error: a length below 10 in the
\* header, and a type LlrpMessage::decode does not know (its ? in the loop)
FatalFrame(frame, llrp_response) ==
  \/ frame.length < 10
  \/ llrp_response.message_type = NoVariant

\* one pass of the loop over the frame the reader sent: the header check,
\* LlrpMessage::decode, the dispatch
ReceiveSession(sent) ==
  /\ loop_pc = "running"
  /\ server_open
  /\ unanswered' = unanswered \ {sent.answers}
  /\ unsolicited' = IF sent.answers = 0 THEN unsolicited + 1 ELSE unsolicited
  /\ LET frame == sent.frame
         llrp_response == from_message(frame)
     IN IF FatalFrame(frame, llrp_response)
        THEN LoopExit
        ELSE /\ message_rx' = IF Dispatch(llrp_response) = "message_tx"
                              THEN broadcast_send(message_rx, llrp_response)
                              ELSE message_rx
             /\ ro_report_rx' = IF Dispatch(llrp_response) = "ro_report_tx"
                                THEN broadcast_send(ro_report_rx, llrp_response)
                                ELSE ro_report_rx
             /\ UNCHANGED << loop_pc, message_tx, ro_report_tx, reader_lock >>
  /\ UNCHANGED << message_id, writer_lock, pc, cur, wire, server_open, log, script >>

Receive(sent) ==
  /\ ReceiveSession(sent)
  /\ UNCHANGED call

ReceiveFrame == \E sent \in ReaderFrames : Receive(sent)

\* the reader closes the connection: read_buf returns 0 in a running loop
ReceiveEof ==
  /\ server_open
  /\ server_open' = FALSE
  /\ IF loop_pc = "running"
     THEN LoopExit
     ELSE UNCHANGED << loop_pc, message_tx, ro_report_tx, reader_lock,
                       message_rx, ro_report_rx >>
  /\ UNCHANGED << message_id, writer_lock, pc, cur, wire, unanswered, unsolicited,
                  log, script >>
  /\ UNCHANGED call

(* ------------------------------------------------------------------------ *)
(* The session of main.rs against a reader that keeps its side              *)
(* ------------------------------------------------------------------------ *)

\* the reader has read StartROSpec and answered it
ROSpecStarted ==
  \E i \in 1..Len(wire) : wire[i].message_type = "StartROSpec" /\ i \notin unanswered

\* such a reader sends answers, and reports once the ROSpec runs
HappyFrames ==
  ResponseFrames \cup
  IF ROSpecStarted /\ unsolicited < MaxUnsolicited
  THEN { [frame |-> Frame("ROAccessReport", 0, GoodReport), answers |-> 0] }
  ELSE {}

ReceiveHappy == \E sent \in HappyFrames : Receive(sent)

\* the reader owes nothing: every request answered, a report sent if due
ReaderPrompt == unanswered = {} /\ (ROSpecStarted => unsolicited >= 1)

\* the waiting verb has nothing to take from its Receiver
NothingToReceive ==
  /\ message_rx.buf = <<>> /\ message_rx.lagged = 0
  /\ ro_report_rx.buf = <<>> /\ ro_report_rx.lagged = 0

\* time passes only while the reader owes nothing and the verb is pending:
\* the reader acts within response_timeout and the verb task is not starved
TickHappy == ReaderPrompt /\ NothingToReceive /\ Tick

NextHappy ==
  \/ ScriptedCall
  \/ LockWriter
  \/ WriteAll
  \/ Subscribe
  \/ SendMessageRecv
  \/ AwaitRecv
  \/ TickHappy
  \/ ReceiveHappy

SpecHappy == InitHappy /\ [][NextHappy]_vars

\* a session whose caller invokes up to MaxVerbs verbs of its choice against a
\* reader that may answer, stay silent, send frames of its own, or close
Next ==
  \/ \E verb \in FreeVerbs \cap SendVerbs : CallVerb(verb)
  \/ CallAwait
  \/ LockWriter
  \/ WriteAll
  \/ Subscribe
  \/ SendMessageRecv
  \/ AwaitRecv
  \/ Tick
  \/ ReceiveFrame
  \/ ReceiveEof

Spec == Init /\ [][Next]_vars

(* ------------------------------------------------------------------------ *)
(* Two narrower sessions                                                    *)
(* ------------------------------------------------------------------------ *)

\* verbs that between them end in every way a send_* verb can: with a
\* response, without waiting for one, with a response that does not decode
IdVerbs ==
  { "send_keep_alive", "send_enable_events_and_reports", "send_get_reader_config" }

\* the receive loop over a frame that answers a request
ReceiveAnswer == \E sent \in ResponseFrames : Receive(sent)

\* a caller of IdVerbs and await_ro_access_report, and a reader that answers
\* or not, in any order, and may close the connection
NextIds ==
  \/ \E verb \in IdVerbs : CallVerb(verb)
  \/ CallAwait
  \/ LockWriter
  \/ WriteAll
  \/ Subscribe
  \/ SendMessageRecv
  \/ AwaitRecv
  \/ Tick
  \/ ReceiveAnswer
  \/ ReceiveEof

SpecIds == Init /\ [][NextIds]_vars

\* a caller that only awaits reports, and a reader that sends frames of its
\* own or closes the connection
NextAwait ==
  \/ CallAwait
  \/ AwaitRecv
  \/ Tick
  \/ ReceiveFrame
  \/ ReceiveEof

SpecAwait == Init /\ [][NextAwait]_vars

\* a caller that only closes the connection, any reader
CallClose == CallVerb("send_close_connection")

NextClose ==
  \/ CallClose
  \/ LockWriter
  \/ WriteAll
  \/ Subscribe
  \/ SendMessageRecv
  \/ Tick
  \/ ReceiveFrame
  \/ ReceiveEof

SpecClose == Init /\ [][NextClose]_vars

\* a dropped future whose Receivers outlive it
Cancel_leaking ==
  /\ pc \in {"lock", "write", "recv", "report_recv"}
  /\ writer_lock' = "free"
  /\ log' = Append(log, LogFrom(cur, "Cancelled", NoResponse,
                                [result |-> "Cancelled", callbacks |-> 0, data |-> <<>>]))
  /\ pc' = "idle"
  /\ cur' = NoVerb
  /\ UNCHANGED << message_rx, ro_report_rx >>
  /\ UNCHANGED << message_id, reader_lock, message_tx, ro_report_tx, loop_pc, wire,
                  unanswered, server_open, unsolicited, script >>
  /\ UNCHANGED call

\* the future of the verb in flight is dropped at one of its await points
\* (the lock, the write before any byte is written, a recv): its locals, the
\* guard and the Receiver among them, are dropped with it
Cancel ==
  /\ pc \in {"lock", "write", "recv", "report_recv"}
  /\ writer_lock' = "free"
  /\ log' = Append(log, LogFrom(cur, "Cancelled", NoResponse,
                                [result |-> "Cancelled", callbacks |-> 0, data |-> <<>>]))
  /\ pc' = "idle"
  /\ cur' = NoVerb
  /\ message_rx' = NoRx
  /\ ro_report_rx' = NoRx
  /\ UNCHANGED << message_id, reader_lock, message_tx, ro_report_tx, loop_pc, wire,
                  unanswered, server_open, unsolicited, script >>
  /\ UNCHANGED call

\* where the loop goes with a frame: it returns, or the arm of its match
Destination(frame) ==
  IF FatalFrame(frame, from_message(frame)) THEN "return"
  ELSE Dispatch(from_message(frame))

\* the last frame the receive loop has taken, and where it went
Traced(frame) ==
  [ op     |-> "receive_loop",
    input  |-> << [frame |-> frame] >>,
    output |-> Destination(frame) ]

\* a pass of the receive loop, the frame kept in the trace
ReceiveTraced ==
  \E sent \in ReaderFrames :
    /\ ReceiveSession(sent)
    /\ call' = Traced(sent.frame)

CallKeepAlive == CallVerb("send_keep_alive")

\* a caller of send_keep_alive and await_ro_access_report, a reader that
\* answers or not and sends frames of its own and keeps the connection open,
\* the last frame the loop has taken traced; no time passes, so a verb
\* returns only with what its Receiver yields
NextLoop ==
  \/ CallKeepAlive
  \/ CallAwait
  \/ LockWriter
  \/ WriteAll
  \/ Subscribe
  \/ SendMessageRecv
  \/ AwaitRecv
  \/ ReceiveTraced

SpecLoop == Init /\ [][NextLoop]_vars

\* a caller of send_keep_alive that may drop the future of a verb, and a
\* reader that answers or not, in any order
NextCancel ==
  \/ CallKeepAlive
  \/ Cancel
  \/ LockWriter
  \/ WriteAll
  \/ Subscribe
  \/ SendMessageRecv
  \/ Tick
  \/ ReceiveAnswer

SpecCancel == Init /\ [][NextCancel]_vars

\* every frame the receive loop has taken so far, each with the number of
\* verbs returned when it was taken, the place of the caller and the time the
\* verb in flight had waited, and where the last of them went
History(frame) ==
  [ op     |-> "receive_loop",
    input  |-> Append(call.input, [ frame    |-> frame,
                                    returned |-> Len(log),
                                    at       |-> pc,
                                    elapsed  |-> cur.elapsed ]),
    output |-> Destination(frame) ]

\* a reader that answers and emits Keepalives of its own
KeepaliveFrames ==
  ResponseFrames \cup
  IF unsolicited < MaxUnsolicited
  THEN { [frame |-> Frame("Keepalive", 0, <<>>), answers |-> 0] }
  ELSE {}

\* a pass of the receive loop over a frame of that reader, kept in the history
ReceiveHistory ==
  \E sent \in KeepaliveFrames :
    /\ ReceiveSession(sent)
    /\ call' = History(sent.frame)

\* time passes only while the waiting verb has nothing to take: its task is
\* not starved
TickPrompt == NothingToReceive /\ Tick

\* a caller of send_keep_alive and a reader that answers and emits Keepalives
NextBetween ==
  \/ CallKeepAlive
  \/ LockWriter
  \/ WriteAll
  \/ Subscribe
  \/ SendMessageRecv
  \/ TickPrompt
  \/ ReceiveHistory

SpecBetween == Init /\ [][NextBetween]_vars

\* the two verbs that decode their response and hand it to a callback
GetVerbs == { "send_get_reader_capabilities", "send_get_reader_config" }

CallGet == \E verb \in GetVerbs : CallVerb(verb)

\* a caller of the two get verbs and a reader that answers them, sooner or
\* later or not at all
NextGet ==
  \/ CallGet
  \/ LockWriter
  \/ WriteAll
  \/ Subscribe
  \/ SendMessageRecv
  \/ Tick
  \/ ReceiveAnswer

SpecGet == Init /\ [][NextGet]_vars

\* a frame with a whole header and the type 99, which is in no registry
UnknownTypeFrame == [type_value |-> 99, length |-> 10, id |-> 0, payload |-> <<>>]

\* a pass of the receive loop over an answer, a report, or a frame of
\* unknown type, the frame kept in the trace
ReceiveUnknown ==
  \E sent \in ResponseFrames \cup
              { [frame |-> UnknownTypeFrame, answers |-> 0],
                [frame |-> Frame("ROAccessReport", 0, GoodReport), answers |-> 0] } :
    /\ unsolicited < MaxUnsolicited \/ sent.answers # 0
    /\ ReceiveSession(sent)
    /\ call' = Traced(sent.frame)

\* a caller of send_keep_alive and await_ro_access_report, time passing, and a
\* reader that answers, reports, or sends a frame of unknown type
NextUnknown ==
  \/ CallKeepAlive
  \/ CallAwait
  \/ LockWriter
  \/ WriteAll
  \/ Subscribe
  \/ SendMessageRecv
  \/ AwaitRecv
  \/ Tick
  \/ ReceiveUnknown

SpecUnknown == Init /\ [][NextUnknown]_vars

(* ------------------------------------------------------------------------ *)
(* Calls of the codec functions                                             *)
(* ------------------------------------------------------------------------ *)

\* every variable of the session
session_vars ==
  << message_id, writer_lock, reader_lock, message_tx, ro_report_tx,
     message_rx, ro_report_rx, pc, cur, loop_pc, wire, unanswered,
     server_open, unsolicited, log, script >>

\* byte values payloads are made of
Octets == {0, 1, 255}

\* byte sequences of length n over Octets
RECURSIVE OctetSeqs(_)
OctetSeqs(n) ==
  IF n = 0 THEN { <<>> }
  ELSE { <<b>> \o t : b \in Octets, t \in OctetSeqs(n - 1) }

\* payloads of up to MaxPayloadLen bytes
Payloads == UNION { OctetSeqs(n) : n \in 0..MaxPayloadLen }

\* 32-bit values, as halves: the ends of the range, an id a session uses, and
\* values whose halves differ
Words == { <<0, 0>>, <<0, 1001>>, <<1, 0>>, <<32768, 1>>, <<65535, 65535>> }

\* message = LlrpMessage::new(..); LlrpMessage::decode(message.encode())
EncodeDecode ==
  /\ call = NoCall
  /\ \E mtype \in DOMAIN LlrpMessageType, id \in Words, payload \in Payloads,
        overflow_checks \in BOOLEAN :
       call' = [ op     |-> "encode_decode",
                 input  |-> [ message         |-> LlrpMessage_new(mtype, id, payload),
                              overflow_checks |-> overflow_checks ],
                 output |-> [ encoded |-> LlrpMessage_encode(
                                            LlrpMessage_new(mtype, id, payload)),
                              decoded |-> LlrpMessage_decode(
                                            LlrpMessage_encode(
                                              LlrpMessage_new(mtype, id, payload)),
                                            overflow_checks) ] ]
  /\ UNCHANGED session_vars

\* values of the header's length field: around 10, around the bytes supplied,
\* and far beyond
LengthWords ==
  { <<0, n>> : n \in 0..(10 + MaxPayloadLen + 1) } \cup { <<1, 0>>, <<65535, 65535>> }

\* first words of a header: a Keepalive and a CustomMessage of version 1, and
\* a type outside the registry
TypeWords == { version_and_type(62), version_and_type(1023), version_and_type(99) }

\* buffers LlrpMessage::decode is handed: a header and the bytes after it, and
\* buffers shorter than a header
DecodeBuffers ==
  { put_u16(w) \o put_u32(len) \o put_u32(<<0, 1001>>) \o payload :
      w \in TypeWords, len \in LengthWords, payload \in Payloads }
  \cup { SubSeq(<<4, 62, 0, 0, 0, 10, 0, 0, 3>>, 1, n) : n \in 0..9 }

\* LlrpMessage::decode(buf)
DecodeBuffer ==
  /\ call = NoCall
  /\ \E buf \in DecodeBuffers, overflow_checks \in BOOLEAN :
       call' = [ op     |-> "decode",
                 input  |-> [buf |-> buf, overflow_checks |-> overflow_checks],
                 output |-> LlrpMessage_decode(buf, overflow_checks) ]
  /\ UNCHANGED session_vars

\* first bytes of TV parameters: 0x81 and 0xFF (no size in the table) and
\* 0x8D (EPC-96)
TVBytes == {129, 255, 141}

\* buffers parse_parameters is handed
ParameterBuffers ==
  { <<t>> \o p : t \in TVBytes, p \in Payloads }
  \cup { GoodReport, BadReport, GdcCapabilitiesPayload, <<129>> \o GoodReport }

\* parse_parameters(buf)
ParseParameters ==
  /\ call = NoCall
  /\ \E buf \in ParameterBuffers :
       call' = [ op     |-> "parse_parameters",
                 input  |-> [buf |-> buf],
                 output |-> parse_parameters(buf) ]
  /\ UNCHANGED session_vars

\* n bytes of an EPC
EpcBytes(n, k) == [ i \in 1..n |-> (k * i + k) % 256 ]

EpcSeeds == {0, 1, 37, 255}

\* a payload of one TagReportData TLV whose value is 0x8D and the bytes epc
TagReportDataPayload(epc) == <<0, 240>> \o put_u16(4 + 1 + Len(epc)) \o <<141>> \o epc

\* LlrpResponse::decode of an ROAccessReport of one TagReportData
DecodeReport ==
  /\ call = NoCall
  /\ \E n \in 0..MaxEpcLen, k \in EpcSeeds :
       call' = [ op     |-> "decode_report",
                 input  |-> [epc |-> EpcBytes(n, k)],
                 output |-> LlrpResponse_decode(
                              [ message_type |-> "ROAccessReport",
                                message_id   |-> <<0, 1001>>,
                                payload      |-> TagReportDataPayload(EpcBytes(n, k)) ]) ]
  /\ UNCHANGED session_vars

\* the configuration of scenario B
ScenarioB ==
  [ rospec_id              |-> <<0, 1>>,
    priority               |-> 0,
    antenna_count          |-> 1,
    antennas               |-> <<0>>,
    ROSpecStartTriggerType |-> 1,
    ROSpecStopTriggerType  |-> 0,
    AISpecStopTriggerType  |-> 0,
    InventoryParamSpecID   |-> 1,
    AIProtocol             |-> 1,
    ROReportTriggerType    |-> 0,
    ROReportTrigger_N      |-> 0,
    ReportContentSelector  |-> 0 ]

\* antenna lists of up to MaxAntennas ids
RECURSIVE AntennaSeqs(_)
AntennaSeqs(n) ==
  IF n = 0 THEN { <<>> }
  ELSE { Append(a, id) : a \in AntennaSeqs(n - 1), id \in {0, 1} }

AntennaLists == UNION { AntennaSeqs(n) : n \in 0..MaxAntennas }

\* values of an ROSpecConfig: short antenna lists with varied fields, and
\* scenario B with the long list
ROSpecConfigs ==
  [ rospec_id              : { <<0, 1>>, <<1, 2>> },
    priority               : { 0, 7 },
    antenna_count          : { 0, 1 },
    antennas               : AntennaLists,
    ROSpecStartTriggerType : { 0, 1 },
    ROSpecStopTriggerType  : { 0, 1 },
    AISpecStopTriggerType  : { 0 },
    InventoryParamSpecID   : { 1 },
    AIProtocol             : { 1 },
    ROReportTriggerType    : { 0, 2 },
    ROReportTrigger_N      : { 0, 258 },
    ReportContentSelector  : { 0 } ]
  \cup { [ScenarioB EXCEPT !.antennas = [i \in 1..ManyAntennas |-> 0]] }

\* values of a ReaderConfig
ReaderConfigs ==
  [ hop_table_id         : { 0, 1 },
    channel_index        : { 0, 1 },
    tx_power_table_index : { 0, 300 },
    rx_power_table_index : { 0, 1 } ]

\* LlrpMessage::new_add_rospec(message_id, config)
AddROSpec ==
  /\ call = NoCall
  /\ \E config \in ROSpecConfigs :
       call' = [ op     |-> "new_add_rospec",
                 input  |-> [config |-> config],
                 output |-> [ message |-> new_add_rospec(<<0, 1001>>, config),
                              emitted |-> add_rospec_emitted(config) ] ]
  /\ UNCHANGED session_vars

\* LlrpMessage::new_set_reader_config(message_id, config)
SetReaderConfig ==
  /\ call = NoCall
  /\ \E config \in ReaderConfigs :
       call' = [ op     |-> "new_set_reader_config",
                 input  |-> [config |-> config],
                 output |-> [ message |-> new_set_reader_config(<<0, 1001>>, config),
                              emitted |-> set_reader_config_emitted(config) ] ]
  /\ UNCHANGED session_vars

NextCodec ==
  \/ EncodeDecode
  \/ DecodeBuffer
  \/ ParseParameters
  \/ DecodeReport
  \/ AddROSpec
  \/ SetReaderConfig

SpecCodec == Init /\ [][NextCodec]_vars

(* ------------------------------------------------------------------------ *)
(* Calls of the parameter parser and the registries                         *)
(* ------------------------------------------------------------------------ *)

\* 16-bit types of TLV parameters: LLRPStatus and TagReportData, the five
\* types parse_parameters re-parses, and two outside the registry
TlvTypes == {287, 240, 137, 142, 143, 144, 146, 5, 1000}

\* a TLV as it stands in a buffer: type, length field, value
TlvOctets(param_type_value, param_length, value) ==
  put_u16(param_type_value) \o put_u16(param_length) \o value

\* values of a TLV: a few bytes, an LLRPStatus TLV, an EPC-96 TV, a TLV of a
\* type outside the registry, and a TLV header cut short
TlvValues ==
  Payloads \cup
  { TlvOctets(287, 4, <<>>),
    TlvOctets(287, 5, <<7>>),
    <<141>> \o EpcBytes(12, 1),
    TlvOctets(5, 5, <<9>>),
    <<0, 5, 0>> }

\* the TLVs that may follow the first one in a buffer
TlvFollowers ==
  { <<>>, TlvOctets(287, 4, <<>>), TlvOctets(287, 6, <<1, 2>>),
    TlvOctets(240, 5, <<3>>) }

\* buffers of one or two TLVs, the first with its length field right, one
\* short, or one more than the bytes that follow
TlvBuffers ==
  { TlvOctets(t, 4 + Len(v) + d, v) \o f :
      t \in TlvTypes, v \in TlvValues, d \in {0, 1}, f \in TlvFollowers }
  \cup { TlvOctets(t, 3, <<>>) : t \in TlvTypes }

\* parse_parameters(buf) over TLVs
ParseTlvs ==
  /\ call = NoCall
  /\ \E buf \in TlvBuffers :
       call' = [ op     |-> "parse_tlvs",
                 input  |-> [buf |-> buf],
                 output |-> parse_parameters(buf) ]
  /\ UNCHANGED session_vars

\* bit lengths of an EPC: around the byte boundaries, EPC-96, and the top of
\* the 16-bit range
EpcBitLengths == {0, 1, 7, 8, 9, 15, 16, 17, 96, 65528, 65529, 65535}

\* how many bytes follow the length field: few, and as many as the longest
\* EPC a 16-bit bit length can announce, or one less
EpcSupplied == (0..MaxEpcLen) \cup {8190, 8191, 8192}

\* EPCData::decode(buf) of either build
DecodeEpc ==
  /\ call = NoCall
  /\ \E bits \in EpcBitLengths, n \in EpcSupplied, k \in {1, 37},
        overflow_checks \in BOOLEAN :
       call' = [ op     |-> "EPCData_decode",
                 input  |-> [ bit_field_length |-> bits,
                              epc              |-> EpcBytes(n, k),
                              overflow_checks  |-> overflow_checks ],
                 output |-> EPCData_decode_build(put_u16(bits) \o EpcBytes(n, k),
                                                 overflow_checks) ]
  /\ UNCHANGED session_vars

\* every value of the 10-bit type field of a message header
MessageTypeValues == 0..1023

\* 16-bit parameter types: every value up to 1023, which holds all the
\* registered ones, the registered ones with the top bit set, and the ends
ParameterTypeValues ==
  (0..1023)
  \cup { LlrpParameterType[v] + 32768 : v \in DOMAIN LlrpParameterType }
  \cup { 32768, 65535 }

\* LlrpMessageType::from_value(value), and from_value(variant.value())
MessageTypeLookup ==
  /\ call = NoCall
  /\ \/ \E value \in MessageTypeValues :
          call' = [ op     |-> "LlrpMessageType::from_value",
                    input  |-> [value |-> value],
                    output |-> MessageType_from_value(value) ]
     \/ \E variant \in DOMAIN LlrpMessageType :
          call' = [ op     |-> "LlrpMessageType::value",
                    input  |-> [variant |-> variant],
                    output |-> MessageType_from_value(MessageType_value(variant)) ]
  /\ UNCHANGED session_vars

\* LlrpParameterType::from_value(value), and from_value(variant.value())
ParameterTypeLookup ==
  /\ call = NoCall
  /\ \/ \E value \in ParameterTypeValues :
          call' = [ op     |-> "LlrpParameterType::from_value",
                    input  |-> [value |-> value],
                    output |-> ParameterType_from_value(value) ]
     \/ \E variant \in DOMAIN LlrpParameterType :
          call' = [ op     |-> "LlrpParameterType::value",
                    input  |-> [variant |-> variant],
                    output |-> ParameterType_from_value(ParameterType_value(variant)) ]
  /\ UNCHANGED session_vars

\* messages a reader sends back to back
StreamMessages ==
  { LlrpMessage_new(mtype, id, payload) :
      mtype \in {"KeepaliveAck", "ROAccessReport"},
      id \in { <<0, 0>>, <<1, 1001>> },
      payload \in { <<>>, <<4>>, <<0, 10>> } }

\* one to three of them in the order sent
StreamSequences ==
  { <<m>> : m \in StreamMessages }
  \cup { <<m, n>> : m \in StreamMessages, n \in StreamMessages }
  \cup { <<m, n, LlrpMessage_new("Keepalive", <<0, 7>>, <<1>>)>> :
           m \in StreamMessages, n \in StreamMessages }

\* what one read may hold after the last whole frame: nothing, one byte, a
\* header less its last byte, a whole header whose payload is yet to come
StreamTails ==
  { <<>>, <<4>>, <<4, 62, 0, 0, 0, 10, 0, 0, 0>>,
    <<4, 62, 0, 0, 0, 12, 0, 0, 0, 1, 255>> }

RECURSIVE Encoded(_)
Encoded(messages) ==
  IF messages = <<>> THEN <<>>
  ELSE LlrpMessage_encode(Head(messages)) \o Encoded(Tail(messages))

\* the receive loop over frames that arrived in one read, and
\* LlrpMessage::decode over the same buffer
DecodeStream ==
  /\ call = NoCall
  /\ \E messages \in StreamSequences, tail \in StreamTails,
        overflow_checks \in BOOLEAN :
       call' = [ op     |-> "receive_loop",
                 input  |-> [ messages        |-> messages,
                              tail            |-> tail,
                              buf             |-> Encoded(messages) \o tail,
                              overflow_checks |-> overflow_checks ],
                 output |-> [ decoded |-> LlrpMessage_decode(
                                            Encoded(messages) \o tail, overflow_checks),
                              rest    |-> LlrpMessage_decode_rest(
                                            Encoded(messages) \o tail, overflow_checks),
                              looped  |-> receive_loop_buffered(
                                            Encoded(messages) \o tail, <<>>,
                                            overflow_checks) ] ]
  /\ UNCHANGED session_vars

\* the value parse_parameters calls itself on in the pass at the front of
\* buf: that of an accepted TLV of a known container type
reparsed(buf) ==
  IF /\ buf[1] < 128
     /\ Len(buf) >= 4
     /\ get_u16(Advance(buf, 2)) >= 4
     /\ get_u16(Advance(buf, 2)) - 4 <= Len(buf) - 4
     /\ is_known_parameter_with_subparams(get_u16(buf))
  THEN [some |-> TRUE, buf |-> SubSeq(buf, 5, get_u16(Advance(buf, 2)))]
  ELSE [some |-> FALSE, buf |-> <<>>]

\* one pass of the while loop of parse_parameters at the front of a buffer
\* that is not empty, and the whole call on that buffer
ParsePass ==
  /\ call = NoCall
  /\ \E buf \in (ParameterBuffers \cup TlvBuffers) \ { <<>> } :
       call' = [ op     |-> "parse_pass",
                 input  |-> [buf |-> buf],
                 output |-> [ one      |-> parse_one(buf),
                              reparsed |-> reparsed(buf),
                              whole    |-> parse_parameters(buf).status ] ]
  /\ UNCHANGED session_vars

\* the bytes of their fixed fields that three typed decoders read
FixedFields ==
  [ GeneralDeviceCapabilities |-> 12,
    LLRPCapabilities          |-> 26,
    FrequencyHopTable         |-> 4 ]

\* X::decode(buf) for the decoder named
typed_decode(decoder, buf) ==
  IF decoder = "GeneralDeviceCapabilities" THEN GeneralDeviceCapabilities_decode(buf)
  ELSE IF decoder = "LLRPCapabilities" THEN LLRPCapabilities_decode(buf)
  ELSE FrequencyHopTable_decode(buf)

\* value buffers of every length up to two bytes past the fixed fields: the
\* first bytes of a value with no firmware text and no frequencies
TypedValue(n) == [ i \in 1..n |-> IF i \in {2, 5, 9} THEN 1 ELSE 0 ]

\* the typed decoders called on a parameter value
DecodeTyped ==
  /\ call = NoCall
  /\ \E decoder \in DOMAIN FixedFields :
       \E n \in 0..(FixedFields[decoder] + 2) :
         call' = [ op     |-> "typed_decode",
                   input  |-> [decoder |-> decoder, buf |-> TypedValue(n)],
                   output |-> typed_decode(decoder, TypedValue(n)) ]
  /\ UNCHANGED session_vars

NextParams ==
  \/ ParseTlvs
  \/ DecodeTyped
  \/ ParsePass
  \/ DecodeStream
  \/ DecodeEpc
  \/ MessageTypeLookup
  \/ ParameterTypeLookup

SpecParams == Init /\ [][NextParams]_vars

(* ------------------------------------------------------------------------ *)
(* Exported functions (lib.rs)                                              *)
(* ------------------------------------------------------------------------ *)

\* extern "C" send_close_connection: -1 for a null pointer, else 0 or -1 after
\* the result of the client's verb
lib_send_close_connection(client_ptr_is_null, verb_result) ==
  IF client_ptr_is_null THEN -1
  ELSE IF verb_result = "Ok" THEN 0
  ELSE -1

\* LAST_ERROR: Option<String>
NoError == [some |-> FALSE, text |-> ""]

\* set_last_error(err)
set_last_error(err) == [some |-> TRUE, text |-> err]

\* get_last_error(): a C string holding the stored text, or null. The texts
\* stored are literals of lib.rs and client.rs and the display of an
\* io::Error; none holds a zero byte, so CString::new succeeds
get_last_error(last_error) ==
  IF last_error.some THEN [null |-> FALSE, text |-> last_error.text]
  ELSE [null |-> TRUE, text |-> ""]

\* the exported verbs that look up a registered callback, with the text they
\* store when none is registered
CallbackVerbs ==
  [ send_get_reader_capabilities |-> "No ReaderCapabilities callback registered",
    send_get_reader_config       |-> "No ReaderConfig callback registered",
    await_ro_access_report       |-> "No ROAccessReport callback registered" ]

\* e.to_string() of the error a verb of the client returned
to_string(verb, result) ==
  CASE result = "TimedOut" ->
         IF verb = AwaitVerb THEN "Timeout waiting for ROAccessReport"
         ELSE "Timeout while waiting for response"
    [] result = "UnexpectedEof" ->
         IF verb = AwaitVerb THEN "ROAccessReport channel closed"
         ELSE "Message channel closed"
    [] result = "WriteError"  -> "Broken pipe (os error 32)"
    [] result = "DecodeError" -> "Unsupported message type"
    [] OTHER -> "panic"

\* an exported verb that returns -1 without storing a text for a null pointer
lib_verb_silent(verb, client_ptr_is_null, callback_registered, outcome, last_error) ==
  IF client_ptr_is_null
  THEN [returned |-> -1, last_error |-> last_error, callbacks |-> 0]
  ELSE IF verb \in DOMAIN CallbackVerbs /\ ~callback_registered
  THEN [returned |-> -1, last_error |-> set_last_error(CallbackVerbs[verb]),
        callbacks |-> 0]
  ELSE IF outcome.result = "Ok"
  THEN [returned |-> 0, last_error |-> last_error, callbacks |-> outcome.callbacks]
  ELSE [returned |-> -1, last_error |-> set_last_error(to_string(verb, outcome.result)),
        callbacks |-> outcome.callbacks]

\* the extern "C" verbs, all of one shape: the null check, for three of them
\* the callback lookup, then block_on of the client's verb and the match on
\* its result
lib_verb(verb, client_ptr_is_null, callback_registered, outcome, last_error) ==
  IF client_ptr_is_null
  THEN [returned |-> -1, last_error |-> set_last_error("Null client pointer"),
        callbacks |-> 0]
  ELSE IF verb \in DOMAIN CallbackVerbs /\ ~callback_registered
  THEN [returned |-> -1, last_error |-> set_last_error(CallbackVerbs[verb]),
        callbacks |-> 0]
  ELSE IF outcome.result = "Ok"
  THEN [returned |-> 0, last_error |-> last_error, callbacks |-> outcome.callbacks]
  ELSE [returned |-> -1, last_error |-> set_last_error(to_string(verb, outcome.result)),
        callbacks |-> outcome.callbacks]

\* free_client and free_string
lib_free(function, ptr_is_null, last_error) ==
  IF ~ptr_is_null THEN [returned |-> 0, last_error |-> last_error, callbacks |-> 0]
  ELSE [returned |-> -1,
        last_error |-> set_last_error(IF function = "free_client"
                                      THEN "Null client pointer"
                                      ELSE "Null string pointer"),
        callbacks |-> 0]

\* what send_message or the report wait may hand the verb
SendResults == {"Ok", "WriteError", "TimedOut", "UnexpectedEof"}

\* responses a verb that received one may be handed
Responses ==
  { from_message(Frame("GetReaderCapabilitiesResponse", 1001, payload)) :
      payload \in CapabilitiesPayloads }
  \cup { from_message(Frame("ROAccessReport", 0, GoodReport)),
         from_message(Frame("ROAccessReport", 0, BadReport)),
         from_message(Frame("GetReaderConfigResponse", 1001, <<>>)),
         from_message(Frame("KeepaliveAck", 1001, <<>>)) }

\* LAST_ERROR before the call: nothing, or the text of an earlier failure
EarlierErrors == { NoError, set_last_error("an earlier failure") }

\* a call of an exported verb, followed by get_last_error
ExportedVerb ==
  /\ call = NoCall
  /\ \E verb \in SendVerbs \cup {AwaitVerb}, client_ptr_is_null \in BOOLEAN,
        callback_registered \in BOOLEAN, send_result \in SendResults,
        response \in Responses, last_error \in EarlierErrors :
       call' = [ op     |-> "exported",
                 input  |-> [ function |-> verb,
                              ptr_is_null |-> client_ptr_is_null,
                              callback_registered |-> callback_registered,
                              outcome |-> VerbOutcome(verb, send_result, response),
                              last_error |-> last_error ],
                 output |-> lib_verb(verb, client_ptr_is_null, callback_registered,
                                     VerbOutcome(verb, send_result, response),
                                     last_error) ]
  /\ UNCHANGED session_vars

\* a call of free_client or free_string, followed by get_last_error
ExportedFree ==
  /\ call = NoCall
  /\ \E function \in {"free_client", "free_string"}, ptr_is_null \in BOOLEAN,
        last_error \in EarlierErrors :
       call' = [ op     |-> "exported",
                 input  |-> [ function |-> function,
                              ptr_is_null |-> ptr_is_null,
                              callback_registered |-> TRUE,
                              outcome |-> [result |-> "Ok", callbacks |-> 0, data |-> <<>>],
                              last_error |-> last_error ],
                 output |-> lib_free(function, ptr_is_null, last_error) ]
  /\ UNCHANGED session_vars

NextLib ==
  \/ ExportedVerb
  \/ ExportedFree

SpecLib == Init /\ [][NextLib]_vars

(* ------------------------------------------------------------------------ *)
(* The callback registries of lib.rs and the threads that use them          *)
(* ------------------------------------------------------------------------ *)

\* the three registries, named by the verb that looks its callback up
Registries == DOMAIN CallbackVerbs

\* READER_CAPABILITIES_CALLBACK, READER_CONFIG_CALLBACK and
\* RO_ACCESS_REPORT_CALLBACK as lazy_static leaves them, no thread in lib.rs:
\* holder is who holds each Mutex, registered whether it holds Some(callback);
\* main is the thread calling the exported functions (block_on runs the verb
\* and the callback on it), other a second thread of the host program
FfiInitial ==
  [ holder     |-> [r \in Registries |-> "free"],
    registered |-> [r \in Registries |-> FALSE],
    main       |-> [pc |-> "idle", registry |-> "none", inner |-> "none"],
    other      |-> [pc |-> "idle", registry |-> "none"],
    returned   |-> 0,
    result     |-> 0 ]

\* the state of the registries and the two threads
Ffi == IF call = NoCall THEN FfiInitial ELSE call.output

FfiStep(next) == call' = [op |-> "ffi", input |-> <<>>, output |-> next]

\* MutexGuard dropped at the end of the exported verb, which then returns
\* result; returned counts the verbs that have
VerbReturns(ffi, result) ==
  [ffi EXCEPT !.holder[ffi.main.registry] = "free",
              !.main = [pc |-> "idle", registry |-> "none", inner |-> "none"],
              !.returned = @ + 1,
              !.result = result]

\* the host calls set_*_callback on the main thread
MainSetCallback ==
  /\ call = NoCall \/ call.op = "ffi"
  /\ Ffi.main.pc = "idle"
  /\ Ffi.returned < MaxVerbs
  /\ \E r \in Registries :
       FfiStep([Ffi EXCEPT !.main = [pc |-> "set", registry |-> r, inner |-> "none"]])
  /\ UNCHANGED session_vars

\* the host calls set_*_callback on another thread
OtherSetCallback ==
  /\ call = NoCall \/ call.op = "ffi"
  /\ Ffi.other.pc = "idle"
  /\ \E r \in Registries :
       FfiStep([Ffi EXCEPT !.other = [pc |-> "set", registry |-> r]])
  /\ UNCHANGED session_vars

\* set_*_callback: *X.lock().unwrap() = Some(callback), the guard a temporary
\* of that one statement; lock() waits while another holder has the Mutex
SetCallbackMain ==
  /\ call = NoCall \/ call.op = "ffi"
  /\ Ffi.main.pc = "set"
  /\ Ffi.holder[Ffi.main.registry] = "free"
  /\ FfiStep([Ffi EXCEPT !.registered[Ffi.main.registry] = TRUE,
                         !.main = [pc |-> "idle", registry |-> "none", inner |-> "none"]])
  /\ UNCHANGED session_vars

SetCallbackOther ==
  /\ call = NoCall \/ call.op = "ffi"
  /\ Ffi.other.pc = "set"
  /\ Ffi.holder[Ffi.other.registry] = "free"
  /\ FfiStep([Ffi EXCEPT !.registered[Ffi.other.registry] = TRUE,
                         !.other = [pc |-> "idle", registry |-> "none"]])
  /\ UNCHANGED session_vars

\* the host calls one of the three exported verbs with a client
CallExported ==
  /\ call = NoCall \/ call.op = "ffi"
  /\ Ffi.main.pc = "idle"
  /\ Ffi.returned < MaxVerbs
  /\ \E r \in Registries :
       FfiStep([Ffi EXCEPT !.main = [pc |-> "lock", registry |-> r, inner |-> "none"]])
  /\ UNCHANGED session_vars

\* let callback_lock = X.lock().unwrap(), a guard that lives to the end of
\* the function; is_none() returns -1; else the callback is copied out of it
LockRegistry ==
  /\ call = NoCall \/ call.op = "ffi"
  /\ Ffi.main.pc = "lock"
  /\ Ffi.holder[Ffi.main.registry] = "free"
  /\ IF Ffi.registered[Ffi.main.registry]
     THEN FfiStep([Ffi EXCEPT !.holder[Ffi.main.registry] = "main",
                              !.main.pc = "block_on"])
     ELSE FfiStep(VerbReturns(Ffi, -1))
  /\ UNCHANGED session_vars

\* RUNTIME.block_on(client.0.verb(closure)): the verb fails and the function
\* returns -1, or it decodes its response and calls the closure
BlockOn ==
  /\ call = NoCall \/ call.op = "ffi"
  /\ Ffi.main.pc = "block_on"
  /\ \/ FfiStep(VerbReturns(Ffi, -1))
     \/ FfiStep([Ffi EXCEPT !.main.pc = "callback"])
  /\ UNCHANGED session_vars

\* the host's callback returns, and with it the verb
CallbackReturns ==
  /\ call = NoCall \/ call.op = "ffi"
  /\ Ffi.main.pc = "callback"
  /\ FfiStep(VerbReturns(Ffi, 0))
  /\ UNCHANGED session_vars

\* the host's callback calls set_*_callback
CallbackSetsCallback ==
  /\ call = NoCall \/ call.op = "ffi"
  /\ Ffi.main.pc = "callback"
  /\ Ffi.main.inner = "none"
  /\ \E r \in Registries :
       FfiStep([Ffi EXCEPT !.main.pc = "callback_set", !.main.inner = r])
  /\ UNCHANGED session_vars

\* its lock(): on a Mutex this thread already holds std either panics or
\* never returns
SetCallbackInside ==
  /\ call = NoCall \/ call.op = "ffi"
  /\ Ffi.main.pc = "callback_set"
  /\ IF Ffi.holder[Ffi.main.inner] = "main"
     THEN \E outcome \in {"panicked", "deadlocked"} :
            FfiStep([Ffi EXCEPT !.main.pc = outcome])
     ELSE /\ Ffi.holder[Ffi.main.inner] = "free"
          /\ FfiStep([Ffi EXCEPT !.registered[Ffi.main.inner] = TRUE,
                                 !.main.pc = "callback"])
  /\ UNCHANGED session_vars

NextFfi ==
  \/ MainSetCallback
  \/ OtherSetCallback
  \/ SetCallbackMain
  \/ SetCallbackOther
  \/ CallExported
  \/ LockRegistry
  \/ BlockOn
  \/ CallbackReturns
  \/ CallbackSetsCallback
  \/ SetCallbackInside

SpecFfi == Init /\ [][NextFfi]_vars

(* ------------------------------------------------------------------------ *)
(* Properties of the session                                                *)
(* ------------------------------------------------------------------------ *)

\* the returned verbs that went through send_message and waited for a response
Waited(e) == e.verb # AwaitVerb /\ e.expected # "None"

\* C1: whenever send_message returns success to a verb that expects a
\* response, the response has the expected type and the id of the request the
\* verb wrote (a message of the expected type with another id is skipped).
C1_ResponseMatchesRequest ==
  \A i \in 1..Len(log) :
    (Waited(log[i]) /\ log[i].send_result = "Ok")
      => /\ log[i].response.message_type = log[i].expected
         /\ log[i].response.message_id = log[i].id

\* C2: the verb subscribes before its request is written, so there is no state
\* in which the request is on the wire, the verb has no subscription yet, and
\* the receive loop has already published the response (to no subscriber).
C2_SubscribedBeforeWrite ==
  \A k \in 1..Len(wire) :
    (pc = "subscribe" /\ wire[k].message_id = cur.id) => k \in unanswered

\* C3: once the receive loop has exited, both broadcast channels are closed (no
\* Sender is left), and no verb that waited across the exit returns TimedOut.
C3_LoopExitClosesChannels ==
  /\ loop_pc = "exited" => (message_tx = {} /\ ro_report_tx = {})
  /\ \A i \in 1..Len(log) :
       (log[i].loop_at_call = "running" /\ log[i].loop_at_return = "exited")
         => log[i].send_result # "TimedOut"

\* C4: a verb that expects a response and is invoked after the receive loop
\* has terminated fails at once with a disconnect error: it does not wait and
\* does not return TimedOut.
C4_VerbAfterExitFailsAtOnce ==
  \A i \in 1..Len(log) :
    (log[i].loop_at_call = "exited" /\ log[i].expected # "None")
      => /\ log[i].send_result \in {"UnexpectedEof", "WriteError"}
         /\ log[i].elapsed = 0

\* C5: the reply to a request whose verb timed out is never returned as the
\* response of a later verb, whatever type the later verb expects.
C5_LateReplyDiscarded ==
  \A i, j \in 1..Len(log) :
    (i < j /\ Waited(log[i]) /\ log[i].send_result = "TimedOut")
      => ~ ( /\ Waited(log[j])
             /\ log[j].send_result = "Ok"
             /\ log[j].response.message_id = log[i].id )

\* C6: a verb that ended with TimedOut left the session usable: the receive
\* loop was still running when it returned, and once the caller is idle again
\* no lock is held and no Receiver of the verb is left.
C6_TimedOutLeavesSessionUsable ==
  \A i \in 1..Len(log) :
    log[i].send_result = "TimedOut"
      => /\ log[i].loop_at_return = "running"
         /\ pc = "idle" => /\ writer_lock = "free"
                           /\ message_rx = NoRx
                           /\ ro_report_rx = NoRx

\* C7 (for the verbs a caller can have in flight, one at a time): a verb whose
\* request the reader answered before the verb returned has returned success
\* with the response to its own request; it has not timed out and has not
\* been given the response to another request.
C7_AnsweredVerbGetsOwnResponse ==
  \A i \in 1..Len(log) :
    (Waited(log[i]) /\ log[i].answered /\ log[i].loop_at_return = "running")
      => /\ log[i].send_result = "Ok"
         /\ log[i].response.message_id = log[i].id

IsSendEntry(e) == e.verb \in SendVerbs

\* C8: the ids a session writes start at 1001 and strictly increase: the k-th
\* verb that builds a request carries id 1000 + k whatever the earlier verbs
\* returned, and await_ro_access_report takes no id.
C8_IdsCountVerbs ==
  LET sends    == SelectSeq(log, IsSendEntry)
      inflight == IF cur.verb \in SendVerbs THEN 1 ELSE 0
  IN /\ \A k \in 1..Len(sends) : sends[k].id = 1000 + k
     /\ cur.verb \in SendVerbs => cur.id = 1000 + Len(sends) + 1
     /\ message_id = 1001 + Len(sends) + inflight
     /\ \A i \in 1..Len(log) : log[i].verb = AwaitVerb => log[i].id = 0
     /\ \A i \in 1..Len(wire) :
          /\ wire[i].message_id >= 1001
          /\ \/ \E k \in 1..Len(sends) : sends[k].id = wire[i].message_id
             \/ cur.verb \in SendVerbs /\ cur.id = wire[i].message_id
     /\ \A i, j \in 1..Len(wire) : i < j => wire[i].message_id < wire[j].message_id

\* a second request on the wire with id 1002 after the first verb timed out
C8_Witness ==
  /\ Len(log) >= 1
  /\ log[1].verb \in SendVerbs
  /\ log[1].send_result = "TimedOut"
  /\ Len(wire) = 2
  /\ wire[2].message_id = 1002

\* C9: the session of main.rs, run against a reader that answers every request
\* and reports once the ROSpec runs, ends with all nine verbs successful, every
\* acknowledgement the one of the verb's own request, and the report callback
\* called exactly once (by await_ro_access_report).
C9_HappyPathSucceeds ==
  (script = <<>> /\ pc = "idle")
    => /\ Len(log) = Len(HappyPath)
       /\ \A i \in 1..Len(log) :
            /\ log[i].result = "Ok"
            /\ Waited(log[i]) => /\ log[i].send_result = "Ok"
                                 /\ log[i].response.message_type = log[i].expected
                                 /\ log[i].response.message_id = log[i].id
            /\ log[i].callbacks = IF log[i].verb = AwaitVerb THEN 1 ELSE 0

\* C10: a call of await_ro_access_report calls back at most once: once exactly
\* when it returns success, with the decoded first message its Receiver
\* yielded, and never when it returns TimedOut, the channel-closed error or a
\* decode error; and it returns within response_timeout of the call, Lagged
\* signals included.
C10_AwaitCallsBackOnce ==
  \A i \in 1..Len(log) :
    log[i].verb = AwaitVerb
      => /\ log[i].callbacks \in {0, 1}
         /\ log[i].callbacks = 1 <=> log[i].result = "Ok"
         /\ log[i].result \in {"Ok", "TimedOut", "UnexpectedEof", "DecodeError"}
         /\ log[i].result = "Ok"
              => /\ log[i].received = 1
                 /\ log[i].response.message_type = "ROAccessReport"
                 /\ LlrpResponse_decode(log[i].response).status = "ok"
                 /\ log[i].data = << LlrpResponse_decode(log[i].response).data >>
         /\ log[i].result = "DecodeError"
              => /\ log[i].received = 1
                 /\ LlrpResponse_decode(log[i].response).status = "err"
         /\ log[i].result \in {"TimedOut", "UnexpectedEof"} => log[i].received = 0
         /\ log[i].elapsed <= ResponseTimeout

\* a call that returned success after a Lagged signal and part of its timeout
C10_Witness ==
  \E i \in 1..Len(log) :
    /\ log[i].verb = AwaitVerb
    /\ log[i].result = "Ok"
    /\ log[i].callbacks = 1
    /\ log[i].lagged >= 1
    /\ log[i].elapsed >= 1

\* C11: a send_get_reader_config whose GetReaderConfigResponse arrived in time
\* with a payload that parses as a parameter list decodes it, calls the
\* callback exactly once with ReaderConfig data, and returns success.
C11_ReaderConfigDecoded ==
  \A i \in 1..Len(log) :
    ( /\ log[i].verb = "send_get_reader_config"
      /\ log[i].send_result = "Ok"
      /\ log[i].response.message_type = "GetReaderConfigResponse"
      /\ parse_parameters(log[i].response.payload).status = "ok" )
      => /\ log[i].result = "Ok"
         /\ log[i].callbacks = 1
         /\ \E d \in {log[i].data[n] : n \in 1..Len(log[i].data)} :
              d.kind = "ReaderConfig"

\* C12: a send_get_reader_capabilities whose response arrived in time with a
\* payload holding a GeneralDeviceCapabilities TLV returns success and calls
\* the callback exactly once with ReaderCapabilities data that holds the
\* decoded fields of that parameter.
C12_CapabilitiesDecoded ==
  \A i \in 1..Len(log) :
    ( /\ log[i].verb = "send_get_reader_capabilities"
      /\ log[i].send_result = "Ok"
      /\ log[i].response.payload = GdcCapabilitiesPayload )
      => /\ log[i].result = "Ok"
         /\ log[i].callbacks = 1
         /\ log[i].data =
              << [ kind  |-> "ReaderCapabilities",
                   items |-> << [ name  |-> "GeneralDeviceCapabilities",
                                  value |-> GeneralDeviceCapabilities_decode(GdcValue).data ] >> ] >>

\* C13: send_close_connection returns success whatever send_message gave it
\* (a response, a write failure, a timeout, with the receive loop running or
\* not), and the exported send_close_connection returns 0 for a client that
\* is not null.
C13_CloseNeverFails ==
  \A i \in 1..Len(log) :
    log[i].verb = "send_close_connection"
      => /\ log[i].result = "Ok"
         /\ lib_send_close_connection(FALSE, log[i].result) = 0

\* one close that failed to write, then one that timed out with the loop gone
C13_Witness ==
  /\ Len(log) = 2
  /\ log[1].verb = "send_close_connection"
  /\ log[1].send_result = "WriteError"
  /\ log[2].verb = "send_close_connection"
  /\ log[2].send_result = "TimedOut"
  /\ log[2].loop_at_call = "exited"

(* ------------------------------------------------------------------------ *)
(* Properties of the codec                                                  *)
(* ------------------------------------------------------------------------ *)

\* C14: for a message built by LlrpMessage::new with a registered type, any id
\* and any payload, decode(encode(m)) succeeds with the same type, id and
\* payload; the encoded word carries version 1 and the length field is
\* 10 + the payload length.
C14_HeaderRoundTrip ==
  call.op = "encode_decode"
    => /\ call.output.decoded.status = "ok"
       /\ call.output.decoded.data.message_type = call.input.message.message_type
       /\ call.output.decoded.data.message_id = call.input.message.message_id
       /\ call.output.decoded.data.payload = call.input.message.payload
       /\ (get_u16(call.output.encoded) \div 1024) % 8 = 1
       /\ get_u32(Advance(call.output.encoded, 2))
            = << 0, 10 + Len(call.input.message.payload) >>
       /\ Len(call.output.encoded) = 10 + Len(call.input.message.payload)

\* the type with the largest value, the largest id, a payload of two bytes
C14_Witness ==
  /\ call.op = "encode_decode"
  /\ call.input.message.message_type = "CustomMessage"
  /\ call.input.message.message_id = <<65535, 65535>>
  /\ Len(call.input.message.payload) = 2
  /\ call.output.decoded.status = "ok"

\* the length field of a buffer that holds a whole header
DeclaredLength(buf) == get_u32(Advance(buf, 2))

\* C15: LlrpMessage::decode returns an error for every buffer of at least 10
\* bytes whose header declares a length larger than the bytes supplied.
C15_DeclaredLengthTooLarge ==
  ( /\ call.op = "decode"
    /\ Len(call.input.buf) >= 10
    /\ \/ DeclaredLength(call.input.buf)[1] > 0
       \/ DeclaredLength(call.input.buf)[2] > Len(call.input.buf) )
    => call.output.status = "err"

\* twelve bytes supplied, a registered type, thirteen declared
C15_Witness ==
  /\ call.op = "decode"
  /\ Len(call.input.buf) = 12
  /\ get_u16(call.input.buf) = version_and_type(62)
  /\ DeclaredLength(call.input.buf) = <<0, 13>>
  /\ call.output.status = "err"

UnsizedTV(b) ==
  /\ b >= 128
  /\ \/ ParameterType_from_value(b % 128) = NoVariant
     \/ get_tv_param_length(ParameterType_from_value(b % 128)) < 0

C18_Epc96Report ==
  call.op = "decode_report" =>
    /\ Len(call.input.epc) = 12 =>
         call.output = Ok([kind |-> "TagReport", items |-> << [epc |-> call.input.epc] >>])
    /\ Len(call.input.epc) < 12 => call.output.status = "err"

\* twelve distinct bytes came back as the one report
C18_Witness ==
  /\ call.op = "decode_report"
  /\ Len(call.input.epc) = 12
  /\ call.input.epc[1] # call.input.epc[12]
  /\ call.output.status = "ok"
  /\ Len(call.output.data.items) = 1
  /\ call.output.data.items[1].epc = call.input.epc

\* C19: in the payloads new_add_rospec and new_set_reader_config build, the
\* length field of every emitted TLV, back-patched or written statically,
\* equals the number of octets emitted for that TLV.
C19_LengthsAreOctetsEmitted ==
  call.op \in {"new_add_rospec", "new_set_reader_config"} =>
    \A tlv \in call.output.emitted : tlv.length = tlv.octets

\* C20: for the configuration of scenario B the payload begins with a ROSpec
\* TLV of type 177 whose length is the payload's length, which is the message
\* length minus 10, and the ROSpecStartTrigger is the bytes 179, 5, 0x01,
\* followed by the 9 bytes of the ROSpecStopTrigger.
C20_ScenarioBEncoding ==
  ( /\ call.op = "new_add_rospec"
    /\ call.input.config = ScenarioB )
    => /\ get_u16(call.output.message.payload) = 177
       /\ get_u16(Advance(call.output.message.payload, 2))
            = Len(call.output.message.payload)
       /\ call.output.message.message_length
            = << 0, 10 + Len(call.output.message.payload) >>
       /\ SubSeq(call.output.message.payload, 15, 19) = <<0, 179, 0, 5, 1>>
       /\ SubSeq(call.output.message.payload, 20, 28) = <<0, 182, 0, 9, 0, 0, 0, 0, 0>>

\* scenario B was encoded, to 65 bytes after the header
C20_Witness ==
  /\ call.op = "new_add_rospec"
  /\ call.input.config = ScenarioB
  /\ Len(call.output.message.payload) = 65
  /\ call.output.message.message_type = "AddROSpec"

\* C22: a verb that was cancelled or timed out leaves no waiter state: the
\* live subscriptions on the message channel are never more than the verbs
\* waiting in send_message, and with the caller idle no Receiver is left and
\* the writer is free for the next verb.
C22_NoWaiterLeftBehind ==
  /\ (IF message_rx.open THEN 1 ELSE 0) <= (IF pc = "recv" THEN 1 ELSE 0)
  /\ pc = "idle" => /\ message_rx = NoRx
                    /\ ro_report_rx = NoRx
                    /\ writer_lock = "free"

\* a verb dropped while it waited for its response, then a verb that succeeded
C22_Witness ==
  /\ Len(log) = 2
  /\ log[1].send_result = "Cancelled"
  /\ \E k \in 1..Len(wire) : wire[k].message_id = log[1].id
  /\ log[2].send_result = "Ok"
  /\ log[2].response.message_id = log[2].id

\* a step in which the receive loop takes a frame: the reader has emitted one
\* more frame of its own, or one request less is unanswered
LoopTook ==
  \/ unsolicited' > unsolicited
  \/ unanswered' # unanswered /\ unanswered' \subseteq unanswered

\* the frame the loop has taken in such a step
TakenFrame == call'.input[Len(call'.input)].frame

\* C23: every message the receive loop decodes goes to one destination chosen
\* by its type alone - an ROAccessReport to the report channel only, a
\* ReaderEventNotification to neither channel, any other type to the message
\* channel only - and the loop goes on.
C23_DispatchByTypeAlone ==
  [][ (LoopTook /\ call'.output # "return") =>
        /\ loop_pc' = "running"
        /\ from_message(TakenFrame).message_type = "ROAccessReport" =>
             /\ call'.output = "ro_report_tx"
             /\ ro_report_rx' = broadcast_send(ro_report_rx, from_message(TakenFrame))
             /\ message_rx' = message_rx
        /\ from_message(TakenFrame).message_type = "ReaderEventNotification" =>
             /\ call'.output = "continue"
             /\ ro_report_rx' = ro_report_rx
             /\ message_rx' = message_rx
        /\ from_message(TakenFrame).message_type
             \notin {"ROAccessReport", "ReaderEventNotification"} =>
             /\ call'.output = "message_tx"
             /\ message_rx' = broadcast_send(message_rx, from_message(TakenFrame))
             /\ ro_report_rx' = ro_report_rx
    ]_vars

\* an event notification was dropped under a verb waiting on the message
\* channel, which still has nothing to take
C23_Witness ==
  /\ call.op = "receive_loop"
  /\ from_message(call.input[Len(call.input)].frame).message_type
       = "ReaderEventNotification"
  /\ call.output = "continue"
  /\ loop_pc = "running"
  /\ pc = "recv"
  /\ message_rx = FreshRx

\* C24: on a header whose length field is below 10 the receive loop returns:
\* nothing is dispatched for that frame, and once the loop has returned it
\* takes no frame and no Receiver is sent anything.
C24_ShortHeaderEndsLoop ==
  [][ /\ (LoopTook /\ TakenFrame.length < 10) =>
           /\ call'.output = "return"
           /\ loop_pc' = "exited"
           /\ message_rx' = message_rx
           /\ ro_report_rx' = ro_report_rx
      /\ loop_pc = "exited" =>
           /\ loop_pc' = "exited"
           /\ ~LoopTook
           /\ Len(message_rx'.buf) <= Len(message_rx.buf)
           /\ Len(ro_report_rx'.buf) <= Len(ro_report_rx.buf)
    ]_vars

\* the loop has returned on a header of length 9 while a verb waits, and the
\* reader has more frames to send
C24_Witness ==
  /\ call.op = "receive_loop"
  /\ call.input[Len(call.input)].frame.length = 9
  /\ call.output = "return"
  /\ loop_pc = "exited"
  /\ pc = "recv"
  /\ ReaderFrames # {}

\* C25: a verb after whose request the reader emitted a Keepalive and then the
\* expected response, both before response_timeout had elapsed, has returned
\* success with that response.
C25_SkipsMessageBeforeAck ==
  \A i \in 1..Len(log) : \A j \in 1..Len(call.input) : \A k \in 1..Len(call.input) :
    ( /\ Waited(log[i])
      /\ j < k
      /\ call.input[j].returned = i - 1
      /\ call.input[j].at \in {"subscribe", "recv"}
      /\ from_message(call.input[j].frame).message_type = "Keepalive"
      /\ call.input[k].returned = i - 1
      /\ call.input[k].elapsed < ResponseTimeout
      /\ from_message(call.input[k].frame).message_type = log[i].expected
      /\ call.input[k].frame.id = log[i].id )
      => /\ log[i].send_result = "Ok"
         /\ log[i].response.message_id = log[i].id

\* C26: messages of another type and Lagged signals never extend the deadline
\* of send_message: while it waits, and when it returns, no more than
\* response_timeout has passed since the wait began, however many messages it
\* skipped, and it returns TimedOut exactly when response_timeout has passed.
C26_SkippedNeverExtendDeadline ==
  /\ pc = "recv" => /\ cur.elapsed <= ResponseTimeout
                    /\ cur.armed <= ResponseTimeout
  /\ \A i \in 1..Len(log) :
       Waited(log[i]) =>
         /\ log[i].elapsed <= ResponseTimeout
         /\ log[i].send_result = "TimedOut" => log[i].elapsed = ResponseTimeout

\* a wait that skipped a message part of the way through and timed out
C26_Witness ==
  \E i \in 1..Len(log) :
    /\ Waited(log[i])
    /\ log[i].received + log[i].lagged >= 2
    /\ log[i].send_result = "TimedOut"
    /\ log[i].elapsed = ResponseTimeout

\* C27: the receive loop suspended in a socket read never keeps a verb from
\* writing its request: the loop never holds the writer's lock, and a verb at
\* writer.lock() or at write_all can always take its step, also while the
\* loop holds the reader's lock.
C27_ReadNeverBlocksWrite ==
  /\ writer_lock \in {"free", "send_message"}
  /\ writer_lock = "send_message" <=> pc = "write"
  /\ pc = "lock" => WriterFree /\ ENABLED LockWriter
  /\ pc = "write" => ENABLED WriteAll

\* a request written, and its verb waiting for the reply, while the loop has
\* held the reader's lock all along
C27_Witness ==
  /\ pc = "recv"
  /\ loop_pc = "running"
  /\ reader_lock = "receive_loop"
  /\ \E i \in 1..Len(wire) : wire[i].message_id = cur.id

\* what one send leaves of a Receiver: nothing changes without a subscriber;
\* a subscriber keeps at most the capacity, the value sent last, every value
\* either kept or counted as missed, and the kept ones are the newest
Published(before, after, value) ==
  /\ ~before.open => after = before
  /\ before.open =>
       /\ after.open
       /\ Len(after.buf) \in 1..ChannelCapacity
       /\ after.buf[Len(after.buf)] = value
       /\ Len(after.buf) + after.lagged = Len(before.buf) + before.lagged + 1
       /\ after.lagged >= before.lagged
       /\ \A n \in 1..Len(after.buf) :
            after.buf[n] = Append(before.buf, value)[n + after.lagged - before.lagged]

\* a step of the verb whose Receiver has missed messages
TookLagged(rx) == rx.lagged > 0 /\ cur' # cur

\* C28: publishing never stalls the receive loop: while it runs it can take
\* the next frame whatever the subscribers do; with no subscriber, or one
\* that is the whole capacity behind, it dispatches and goes on; the lagging
\* subscriber loses the oldest entries, gets Lagged once, and goes on
\* receiving what is retained instead of failing.
C28_PublishingNeverStalls ==
  [][ /\ (loop_pc = "running" /\ ReaderFrames # {}) => ENABLED ReceiveTraced
      /\ (LoopTook /\ call'.output = "message_tx") =>
           /\ loop_pc' = "running"
           /\ Published(message_rx, message_rx', from_message(TakenFrame))
      /\ (LoopTook /\ call'.output = "ro_report_tx") =>
           /\ loop_pc' = "running"
           /\ Published(ro_report_rx, ro_report_rx', from_message(TakenFrame))
      /\ (pc = "recv" /\ TookLagged(message_rx)) =>
           /\ pc' = "recv"
           /\ cur'.lagged = cur.lagged + 1
           /\ message_rx' = [message_rx EXCEPT !.lagged = 0]
      /\ (pc = "report_recv" /\ TookLagged(ro_report_rx)) =>
           /\ pc' = "report_recv"
           /\ cur'.lagged = cur.lagged + 1
           /\ ro_report_rx' = [ro_report_rx EXCEPT !.lagged = 0]
    ]_vars

\* a verb fell behind, was told so, then took its response from what was
\* retained; the loop still runs and has since published to no subscriber
C28_Witness ==
  /\ \E i \in 1..Len(log) :
       /\ log[i].lagged >= 1
       /\ log[i].received >= 1
       /\ log[i].result = "Ok"
  /\ loop_pc = "running"
  /\ pc = "idle"
  /\ ~message_rx.open
  /\ call.output = "message_tx"

\* a step in which await_ro_access_report returns the error of a report body
\* that does not decode
AwaitReturnsDecodeError ==
  /\ Len(log') = Len(log) + 1
  /\ log'[Len(log')].verb = AwaitVerb
  /\ log'[Len(log')].result = "DecodeError"

\* C29: a parameter parse error inside an ROAccessReport body does not tear
\* down the session: the receive loop publishes the report undecoded and keeps
\* running, and when await_ro_access_report returns the decode error the loop,
\* both channels' Senders and the locks are as they were, the caller idle.
C29_BadReportKeepsSession ==
  [][ /\ ( /\ LoopTook
           /\ TakenFrame.length >= 10
           /\ from_message(TakenFrame).message_type = "ROAccessReport"
           /\ LlrpResponse_decode(from_message(TakenFrame)).status # "ok" ) =>
             /\ call'.output = "ro_report_tx"
             /\ loop_pc' = "running"
             /\ message_tx' = message_tx
             /\ ro_report_tx' = ro_report_tx
             /\ reader_lock' = reader_lock
      /\ AwaitReturnsDecodeError =>
           /\ log'[Len(log')].callbacks = 0
           /\ loop_pc' = loop_pc
           /\ message_tx' = message_tx
           /\ ro_report_tx' = ro_report_tx
           /\ reader_lock' = reader_lock
           /\ writer_lock' = "free"
           /\ pc' = "idle"
    ]_vars

\* await_ro_access_report returned the decode error of a report, and the
\* send_keep_alive issued after it was answered and returned Ok
C29_Witness ==
  /\ Len(log) = 2
  /\ log[1].verb = AwaitVerb
  /\ log[1].result = "DecodeError"
  /\ log[1].response.payload = BadReport
  /\ log[2].verb = "send_keep_alive"
  /\ log[2].loop_at_call = "running"
  /\ log[2].result = "Ok"
  /\ log[2].response.message_id = log[2].id
  /\ loop_pc = "running"

\* a step in which send_message takes the oldest message of its Receiver
TakesMessage ==
  /\ pc = "recv"
  /\ message_rx.lagged = 0
  /\ message_rx.buf # <<>>
  /\ cur' # cur
  /\ cur' # [cur EXCEPT !.elapsed = @ + 1]

\* C30: when send_get_reader_capabilities or send_get_reader_config takes a
\* response of the expected type whose body does not decode, the verb returns
\* the decode error in that step, whatever is left of response_timeout, and
\* the callback is not called.
C30_MalformedResponseAtOnce ==
  [][ ( /\ TakesMessage
        /\ cur.verb \in GetVerbs
        /\ Head(message_rx.buf).message_type = cur.expected
        /\ LlrpResponse_decode(Head(message_rx.buf)).status # "ok" ) =>
          /\ pc' = "idle"
          /\ Len(log') = Len(log) + 1
          /\ log'[Len(log')].verb = cur.verb
          /\ log'[Len(log')].response = Head(message_rx.buf)
          /\ log'[Len(log')].result = "DecodeError"
          /\ log'[Len(log')].callbacks = 0
          /\ log'[Len(log')].data = <<>>
          /\ log'[Len(log')].elapsed = cur.elapsed
    ]_vars

\* each of the two verbs has returned the decode error of its own response
\* with part of response_timeout left
C30_Witness ==
  \A verb \in GetVerbs :
    \E i \in 1..Len(log) :
      /\ log[i].verb = verb
      /\ log[i].response.message_type = log[i].expected
      /\ log[i].response.message_id = log[i].id
      /\ log[i].result = "DecodeError"
      /\ log[i].callbacks = 0
      /\ log[i].elapsed < ResponseTimeout

\* the first TLV of a buffer of TLVs: its type, its length field, the bytes
\* after its header
FirstType(buf)   == get_u16(buf)
FirstLength(buf) == get_u16(Advance(buf, 2))
FirstValue(buf)  == SubSeq(buf, 5, FirstLength(buf))

\* C31: for a TLV parse_parameters accepts, the returned parameter's value is
\* the L-4 bytes after the 4-byte header, also for the container types, whose
\* sub-parameters come in addition to the value.
C31_ValueIsBytesAfterHeader ==
  ( /\ call.op = "parse_tlvs"
    /\ call.output.status = "ok"
    /\ ParameterType_from_value(FirstType(call.input.buf)) # NoVariant )
    => /\ Len(call.output.data) >= 1
       /\ call.output.data[1].param_type
            = ParameterType_from_value(FirstType(call.input.buf))
       /\ call.output.data[1].param_length = FirstLength(call.input.buf)
       /\ call.output.data[1].param_value = FirstValue(call.input.buf)
       /\ call.output.data[1].sub_params.some
            = is_known_parameter_with_subparams(FirstType(call.input.buf))

\* the first TLV of the buffer is well formed: L >= 4 and L-4 bytes follow
FirstAccepted(buf) ==
  /\ Len(buf) >= 4
  /\ FirstLength(buf) >= 4
  /\ FirstLength(buf) <= Len(buf)

\* C32: a TLV whose type is not in the registry is skipped without aborting:
\* its value bytes are consumed, it is in the result as an opaque entry, and
\* every parameter that follows it is returned after it.
C32_UnknownTlvSurfaced ==
  ( /\ call.op = "parse_tlvs"
    /\ FirstAccepted(call.input.buf)
    /\ ParameterType_from_value(FirstType(call.input.buf)) = NoVariant
    /\ parse_parameters(Advance(call.input.buf, FirstLength(call.input.buf))).status = "ok" )
    => /\ call.output.status = "ok"
       /\ Len(call.output.data) >= 1
       /\ call.output.data[1].param_length = FirstLength(call.input.buf)
       /\ call.output.data[1].param_value = FirstValue(call.input.buf)
       /\ Tail(call.output.data)
            = parse_parameters(Advance(call.input.buf, FirstLength(call.input.buf))).data

\* ceil(bits / 8)
EpcByteLength(bits) == (bits + 7) \div 8

\* C33: EPCData::decode returns, for every 16-bit bit length b and a buffer
\* with at least ceil(b/8) bytes after the length field, the EPC of exactly
\* those ceil(b/8) bytes, and with fewer bytes an error.
C33_EpcIsCeilBytes ==
  call.op = "EPCData_decode" =>
    IF Len(call.input.epc) >= EpcByteLength(call.input.bit_field_length)
    THEN call.output = Ok(SubSeq(call.input.epc, 1,
                                 EpcByteLength(call.input.bit_field_length)))
    ELSE call.output = Err

\* C34: the two mappings of each registry are inverse on the closed set:
\* from_value(v.value()) is v for every variant v, and from_value(x) is None
\* for every x that is no variant's value, else a variant whose value is x;
\* for the message types over 10 bits and the parameter types over 16 bits.
C34_RegistriesAreInverse ==
  /\ call.op = "LlrpMessageType::value" => call.output = call.input.variant
  /\ call.op = "LlrpParameterType::value" => call.output = call.input.variant
  /\ call.op = "LlrpMessageType::from_value" =>
       IF \E v \in DOMAIN LlrpMessageType : MessageType_value(v) = call.input.value
       THEN /\ call.output \in DOMAIN LlrpMessageType
            /\ MessageType_value(call.output) = call.input.value
       ELSE call.output = NoVariant
  /\ call.op = "LlrpParameterType::from_value" =>
       IF \E v \in DOMAIN LlrpParameterType : ParameterType_value(v) = call.input.value
       THEN /\ call.output \in DOMAIN LlrpParameterType
            /\ ParameterType_value(call.output) = call.input.value
       ELSE call.output = NoVariant

\* the variant None of the message types, whose value is 0, came back as
\* itself and not as the absence of a variant
C34_Witness ==
  /\ call.op = "LlrpMessageType::value"
  /\ call.input.variant = "None"
  /\ call.output = "None"
  /\ call.output # NoVariant

C36_DecodeRemovesDeclaredLength ==
  call.op = "receive_loop" =>
    /\ call.output.decoded.status = "ok"
    /\ call.output.decoded.data = call.input.messages[1]
    /\ Len(call.output.rest)
         = Len(call.input.buf) - DeclaredLength(call.input.buf)[2]
    /\ call.output.rest
         = Advance(call.input.buf, DeclaredLength(call.input.buf)[2])
    /\ call.output.rest = Encoded(Tail(call.input.messages)) \o call.input.tail
    /\ call.output.looped.status = "read"
    /\ call.output.looped.messages = call.input.messages
    /\ call.output.looped.buf = call.input.tail

\* three frames of different lengths and the start of a fourth in one read
C36_Witness ==
  /\ call.op = "receive_loop"
  /\ Len(call.input.messages) = 3
  /\ Len(call.input.messages[1].payload) = 2
  /\ Len(call.input.messages[2].payload) = 0
  /\ Len(call.input.tail) = 11
  /\ Len(call.output.looped.messages) = 3
  /\ call.output.looped.buf = call.input.tail

\* buf ends with rest, which is at least n bytes shorter
ShorterSuffix(rest, buf, n) ==
  /\ Len(rest) <= Len(buf) - n
  /\ rest = Advance(buf, Len(buf) - Len(rest))

\* C37: parse_parameters terminates: each pass of its loop either returns an
\* error or leaves strictly fewer unparsed bytes, the tail of what it had (at
\* least 1 byte less for a TV, skipped ones included, at least 4 for a TLV),
\* it calls itself on a buffer at least 4 bytes shorter, and the whole call
\* returns a result.
C37_EveryPassConsumes ==
  call.op = "parse_pass" =>
    /\ call.output.whole \in {"ok", "err"}
    /\ call.output.one.step \in {"push", "skip", "err"}
    /\ call.output.one.step # "err" =>
         ShorterSuffix(call.output.one.rest, call.input.buf,
                       IF call.input.buf[1] >= 128 THEN 1 ELSE 4)
    /\ call.output.reparsed.some =>
         /\ Len(call.output.reparsed.buf) <= Len(call.input.buf) - 4
         /\ call.output.one.step # "err" =>
              call.output.reparsed.buf \o call.output.one.rest
                = Advance(call.input.buf, 4)

\* a TV of a type without a size was skipped by its one byte, the bytes after
\* it left to the next pass
C37_Witness ==
  /\ call.op = "parse_pass"
  /\ call.input.buf[1] = 255
  /\ Len(call.input.buf) = 3
  /\ call.output.one.step = "skip"
  /\ call.output.one.rest = Advance(call.input.buf, 1)

\* C38: a typed parameter decoder handed a value shorter than the fixed
\* fields it reads returns an error and never reads past the end of the
\* value: the length it checks is at least the bytes it then reads.
C38_ShortValueIsError ==
  call.op = "typed_decode" =>
    /\ call.output.status # "panic"
    /\ Len(call.input.buf) < FixedFields[call.input.decoder] =>
         call.output.status = "err"

(* ------------------------------------------------------------------------ *)
(* Properties of the exported functions                                     *)
(* ------------------------------------------------------------------------ *)

\* C21: an exported function returns 0 when the pointer is not null, the
\* callback it needs is registered and the client's verb succeeded, and -1
\* otherwise; after a -1 the next get_last_error returns a text stored by
\* that call, not null and not the text of an earlier failure.
C21_MinusOneLeavesItsText ==
  call.op = "exported" =>
    /\ call.output.returned \in {0, -1}
    /\ call.output.returned = 0 <=>
         /\ ~call.input.ptr_is_null
         /\ call.input.function \in DOMAIN CallbackVerbs => call.input.callback_registered
         /\ call.input.outcome.result = "Ok"
    /\ call.output.returned = -1 =>
         /\ ~get_last_error(call.output.last_error).null
         /\ get_last_error(call.output.last_error) # get_last_error(call.input.last_error)

\* a keep-alive that timed out after an earlier failure had left its text
C21_Witness ==
  /\ call.op = "exported"
  /\ call.input.function = "send_keep_alive"
  /\ ~call.input.ptr_is_null
  /\ call.input.outcome.result = "TimedOut"
  /\ call.input.last_error.some
  /\ call.output.returned = -1
  /\ get_last_error(call.output.last_error).text = "Timeout while waiting for response"

\* C39: the exported verbs that take a callback do not hold the lock of its
\* registry while the verb runs and the callback executes: a set_*_callback
\* of the same kind on another thread is never kept waiting by a verb, and
\* one called from inside the callback neither panics nor deadlocks.
C39_RegistryFreeWhileVerbRuns ==
  /\ Ffi.main.pc \in {"block_on", "callback", "callback_set"} =>
       Ffi.holder[Ffi.main.registry] = "free"
  /\ Ffi.other.pc = "set" => Ffi.holder[Ffi.other.registry] = "free"
  /\ Ffi.main.pc \notin {"panicked", "deadlocked"}

====
